---- MODULE Spec2Model ----
(***************************************************************************)
(* A model of the slinky pipeline builder: the expression/statement IR,    *)
(* bounds inference, sliding window / storage folding, input crop removal, *)
(* buffer aliasing and scope reduction, and an evaluator for the IR.       *)
(***************************************************************************)
EXTENDS Integers, Sequences, FiniteSets, TLC

VARIABLES
  phase,   \* position of the driver: which pass has run last
  prog,    \* the statement being transformed / evaluated
  input,   \* the statement the pass was given (kept for comparison)
  aux,     \* what the pass leaves behind besides the statement (maps, logs)
  run      \* the evaluator's state while the statement executes

vars == <<phase, prog, input, aux, run>>

-----------------------------------------------------------------------------
(* Generic helpers                                                          *)

Range(f) == {f[i] : i \in DOMAIN f}

Max2(a, b) == IF a >= b THEN a ELSE b

Min2(a, b) == IF a <= b THEN a ELSE b

\* Floored division and modulus (spec 3.2) for a positive divisor.
FloorDiv(a, b) == a \div b

FloorMod(a, b) == a % b

None == <<"none">>

Some(x) == <<"some", x>>

IsSome(o) == o[1] = "some"

Val(o) == o[2]

\* A sequence and a map written out element by element.
Tuple(f) == f \o <<>>

Map(f) == f @@ <<>>

\* e, with x evaluated first: an operator that threads a state through a
\* recursion evaluates the state it is given before it goes on.
Strict(x, e) == IF x = x THEN e ELSE e

-----------------------------------------------------------------------------
(* Expressions.  An expression is kept in the affine normal form            *)
(* k0 + SUM ki * atom_i: <<"lin", k0, {<<atom_i, ki>>}>>.  An atom is a      *)
(* variable, a buffer metadata call, an infinity, or a non-affine node      *)
(* (min, max, mul, select, align_up, div) over expressions.                 *)

Undef == <<"undef">>

Defined(e) == e[1] # "undef"

Lin(k, T) == <<"lin", k, T>>

Const(c) == Lin(c, {})

AtomE(a) == Lin(0, {<<a, 1>>})

Var(n) == AtomE(<<"var", n>>)

BufferMeta(kind, buf, d) == AtomE(<<"bmeta", kind, buf, d>>)

buffer_min(buf, d) == BufferMeta("min", buf, d)

buffer_max(buf, d) == BufferMeta("max", buf, d)

buffer_extent(buf, d) == BufferMeta("extent", buf, d)

buffer_stride(buf, d) == BufferMeta("stride", buf, d)

buffer_fold_factor(buf, d) == BufferMeta("fold", buf, d)

positive_infinity == AtomE(<<"inf", 1>>)

negative_infinity == AtomE(<<"inf", -1>>)

is_positive_infinity(e) == e = positive_infinity

is_negative_infinity(e) == e = negative_infinity

IsConst(e) == e[3] = {}

ConstVal(e) == e[2]

Terms(e) == e[3]

AtomsOf(e) == {p[1] : p \in e[3]}

Coef(e, a) == IF \E p \in e[3] : p[1] = a THEN (CHOOSE p \in e[3] : p[1] = a)[2] ELSE 0

\* A single atom with coefficient one and no constant part.
IsAtomE(e) == e[2] = 0 /\ Cardinality(e[3]) = 1 /\ \A p \in e[3] : p[2] = 1

TheAtom(e) == (CHOOSE p \in e[3] : TRUE)[1]

AddE(a, b) ==
  LET A == AtomsOf(a) \cup AtomsOf(b)
  IN  Lin(a[2] + b[2], {<<x, Coef(a, x) + Coef(b, x)>> : x \in {y \in A : Coef(a, y) + Coef(b, y) # 0}})

ScaleE(c, a) == IF c = 0 THEN Const(0) ELSE Lin(c * a[2], {<<p[1], c * p[2]>> : p \in a[3]})

SubE(a, b) == AddE(a, ScaleE(-1, b))

MulE(a, b) ==
  IF IsConst(a) THEN ScaleE(a[2], b)
  ELSE IF IsConst(b) THEN ScaleE(b[2], a)
  ELSE AtomE(<<"mul", a, b>>)

\* a <= b is known when b - a is a non-negative constant, or one side is an
\* infinity.
KnownLE(a, b) ==
  \/ a = b
  \/ is_positive_infinity(b)
  \/ is_negative_infinity(a)
  \/ (IsConst(SubE(b, a)) /\ ConstVal(SubE(b, a)) >= 0)

MinOperands(e) == IF IsAtomE(e) /\ TheAtom(e)[1] = "min" THEN TheAtom(e)[2] ELSE {e}

MaxOperands(e) == IF IsAtomE(e) /\ TheAtom(e)[1] = "max" THEN TheAtom(e)[2] ELSE {e}

\* min over a set of operands: nested mins are flattened, and an operand known
\* to be at least another one is dropped.
MinSetE(S0) ==
  LET S == {z : z \in {x \in S0 : ~ \E y \in S0 : y # x /\ KnownLE(y, x)}}
  IN  IF Cardinality(S) = 1 THEN CHOOSE x \in S : TRUE ELSE AtomE(<<"min", S>>)

MaxSetE(S0) ==
  LET S == {z : z \in {x \in S0 : ~ \E y \in S0 : y # x /\ KnownLE(x, y)}}
  IN  IF Cardinality(S) = 1 THEN CHOOSE x \in S : TRUE ELSE AtomE(<<"max", S>>)

MinE(a, b) == MinSetE(MinOperands(a) \cup MinOperands(b))

MaxE(a, b) == MaxSetE(MaxOperands(a) \cup MaxOperands(b))

\* select(l == r, t, f)
SelectEqE(l, r, t, f) ==
  IF t = f THEN t
  ELSE IF l = r THEN t
  ELSE IF IsConst(SubE(l, r)) THEN f
  ELSE AtomE(<<"select", <<l, r>>, t, f>>)

\* align_up(x, a) = ((x + a - 1) / a) * a
AlignUpE(x, a) ==
  IF IsConst(x) /\ IsConst(a) /\ ConstVal(a) > 0
  THEN Const(FloorDiv(ConstVal(x) + ConstVal(a) - 1, ConstVal(a)) * ConstVal(a))
  ELSE AtomE(<<"align_up", x, a>>)

\* floor(x / c) for a positive constant c
DivE(x, c) ==
  IF c = 1 THEN x
  ELSE IF IsConst(x) THEN Const(FloorDiv(ConstVal(x), c))
  ELSE AtomE(<<"div", x, Const(c)>>)

\* abs(x)
AbsE(x) ==
  IF IsConst(x) THEN Const(IF ConstVal(x) < 0 THEN -ConstVal(x) ELSE ConstVal(x))
  ELSE AtomE(<<"abs", x>>)

-----------------------------------------------------------------------------
(* substitute and depends_on over expressions                               *)

RECURSIVE SubstE(_, _, _), SubstTerms(_, _, _), SubstAtom(_, _, _)

\* substitute(e, target, replacement): every structural occurrence of the
\* expression target in e is replaced.
SubstE(e, t, r) ==
  IF ~Defined(e) THEN e
  ELSE IF e = t THEN r
  ELSE AddE(Const(e[2]), SubstTerms(e[3], t, r))

SubstTerms(T, t, r) ==
  IF T = {} THEN Const(0)
  ELSE LET p == CHOOSE q \in T : TRUE
       IN  AddE(ScaleE(p[2], SubstAtom(p[1], t, r)), SubstTerms(T \ {p}, t, r))

SubstAtom(a, t, r) ==
  IF AtomE(a) = t THEN r
  ELSE CASE a[1] = "min" -> MinSetE(UNION {MinOperands(SubstE(x, t, r)) : x \in a[2]})
         [] a[1] = "max" -> MaxSetE(UNION {MaxOperands(SubstE(x, t, r)) : x \in a[2]})
         [] a[1] = "mul" -> MulE(SubstE(a[2], t, r), SubstE(a[3], t, r))
         [] a[1] = "align_up" -> AlignUpE(SubstE(a[2], t, r), SubstE(a[3], t, r))
         [] a[1] = "div" -> DivE(SubstE(a[2], t, r), ConstVal(a[3]))
         [] a[1] = "abs" -> AbsE(SubstE(a[2], t, r))
         [] a[1] = "select" -> SelectEqE(SubstE(a[2][1], t, r), SubstE(a[2][2], t, r),
                                         SubstE(a[3], t, r), SubstE(a[4], t, r))
         [] OTHER -> AtomE(a)

substitute(e, sym, r) == SubstE(e, Var(sym), r)

RECURSIVE DependsOnE(_, _), AtomDependsOn(_, _)

DependsOnE(e, sym) == Defined(e) /\ \E a \in AtomsOf(e) : AtomDependsOn(a, sym)

AtomDependsOn(a, sym) ==
  CASE a[1] = "var" -> a[2] = sym
    [] a[1] = "bmeta" -> a[3] = sym
    [] a[1] \in {"min", "max"} -> \E x \in a[2] : DependsOnE(x, sym)
    [] a[1] \in {"mul", "align_up", "div"} -> DependsOnE(a[2], sym) \/ DependsOnE(a[3], sym)
    [] a[1] = "abs" -> DependsOnE(a[2], sym)
    [] a[1] = "select" -> \/ DependsOnE(a[2][1], sym) \/ DependsOnE(a[2][2], sym)
                          \/ DependsOnE(a[3], sym) \/ DependsOnE(a[4], sym)
    [] OTHER -> FALSE

\* The value of an unfolded dimension's fold factor, and of an infinity.
Unfolded == 2^30

SetMin(S) == CHOOSE x \in S : \A y \in S : x <= y

SetMax(S) == CHOOSE x \in S : \A y \in S : x >= y

RECURSIVE EvalE(_, _), EvalTerms(_, _), EvalAtom(_, _)

\* evaluate(e, context): env.vars gives the scalar variables, env.bufs the
\* buffers in scope, a buffer being [st, dims] with dims a sequence of
\* [min, max, fold, stride].
EvalE(e, env) == e[2] + EvalTerms(e[3], env)

EvalTerms(T, env) ==
  IF T = {} THEN 0
  ELSE LET p == CHOOSE q \in T : TRUE
       IN  p[2] * EvalAtom(p[1], env) + EvalTerms(T \ {p}, env)

EvalAtom(a, env) ==
  CASE a[1] = "var" -> Val(env.vars[a[2]])
    [] a[1] = "bmeta" ->
         LET dim == Val(env.bufs[a[3]]).dims[a[4]]
         IN  IF a[2] = "min" THEN dim.min
             ELSE IF a[2] = "max" THEN dim.max
             ELSE IF a[2] = "extent" THEN dim.max - dim.min + 1
             ELSE IF a[2] = "stride" THEN dim.stride
             ELSE dim.fold
    [] a[1] = "inf" -> a[2] * Unfolded
    [] a[1] = "min" -> SetMin({EvalE(x, env) : x \in a[2]})
    [] a[1] = "max" -> SetMax({EvalE(x, env) : x \in a[2]})
    [] a[1] = "mul" -> EvalE(a[2], env) * EvalE(a[3], env)
    [] a[1] = "align_up" ->
         LET x == EvalE(a[2], env)
             n == EvalE(a[3], env)
         IN  FloorDiv(x + n - 1, n) * n
    [] a[1] = "div" -> FloorDiv(EvalE(a[2], env), EvalE(a[3], env))
    [] a[1] = "abs" -> SetMax({EvalE(a[2], env), 0 - EvalE(a[2], env)})
    [] a[1] = "select" ->
         IF EvalE(a[2][1], env) = EvalE(a[2][2], env) THEN EvalE(a[3], env) ELSE EvalE(a[4], env)

\* interval_expr: <<min, max>>
IntervalUndef == <<Undef, Undef>>

Extent(iv) == AddE(SubE(iv[2], iv[1]), Const(1))

DependsOnInterval(iv, sym) == DependsOnE(iv[1], sym) \/ DependsOnE(iv[2], sym)

SubstInterval(iv, t, r) == <<SubstE(iv[1], t, r), SubstE(iv[2], t, r)>>

\* Apply a list of (target, replacement) pairs in order.
RECURSIVE SubstList(_, _)

SubstList(e, subs) ==
  IF subs = <<>> \/ ~Defined(e) THEN e ELSE SubstList(SubstE(e, Head(subs)[1], Head(subs)[2]), Tail(subs))

-----------------------------------------------------------------------------
(* Statements                                                               *)

Nil == <<"nil">>

Tag(s) == s[1]

\* block::make over a list: undefined statements are skipped.
BlockMake(a, b) == IF a = Nil THEN b ELSE IF b = Nil THEN a ELSE <<"block", a, b>>

RECURSIVE BlockOf(_)

BlockOf(ss) == IF ss = <<>> THEN Nil ELSE BlockMake(Head(ss), BlockOf(Tail(ss)))

LoopMake(sym, mode, bounds, step, body) == <<"loop", sym, mode, bounds, step, body>>

CallMake(fn, inputs, outputs) == <<"call", fn, inputs, outputs>>

CopyMake(src, dst) == <<"copy", src, dst>>

\* dims: a sequence of dim_expr <<bounds, stride, fold_factor>>
AllocateMake(sym, elem_size, dims, body) == <<"allocate", sym, elem_size, dims, body>>

LetMake(sym, value, body) == <<"let", sym, value, body>>

CropBufferMake(sym, bounds, body) == <<"crop_buffer", sym, bounds, body>>

CropDimMake(sym, dim, bounds, body) == <<"crop_dim", sym, dim, bounds, body>>

\* A faulty check::make(a <= b): the comparison the wrong way round.
CheckGE(a, b) == <<"check", b, a>>

\* check::make(a <= b)
CheckLE(a, b) == <<"check", a, b>>

\* The body of a scoping node, and the node with another body.
BodyOf(s) == s[Len(s)]

WithBody(s, body) == [s EXCEPT ![Len(s)] = body]

HasBody(s) == Tag(s) \in {"loop", "allocate", "let", "crop_buffer", "crop_dim"}

\* The buffer metadata placeholders the builder gives a buffer of rank r.
PlaceholderDims(sym, r) ==
  Tuple([d \in 1..r |-> <<<<buffer_min(sym, d), buffer_max(sym, d)>>, buffer_stride(sym, d), buffer_fold_factor(sym, d)>>])

-----------------------------------------------------------------------------
(* merge_crop                                                               *)

ExtendBox(box, n) ==
  IF Len(box) >= n THEN box ELSE box \o Tuple([i \in 1..(n - Len(box)) |-> IntervalUndef])

merge_crop_dim(bounds, dim, new_bounds) ==
  LET b0 == IF IsSome(bounds) THEN Val(bounds) ELSE <<>>
      b1 == ExtendBox(b0, dim)
      b2 == IF Defined(new_bounds[1]) THEN [b1 EXCEPT ![dim][1] = new_bounds[1]] ELSE b1
      b3 == IF Defined(new_bounds[2]) THEN [b2 EXCEPT ![dim][2] = new_bounds[2]] ELSE b2
  IN  IF ~Defined(new_bounds[1]) /\ ~Defined(new_bounds[2]) THEN bounds ELSE Some(b3)

RECURSIVE MergeCropFrom(_, _, _)

MergeCropFrom(bounds, new_bounds, d) ==
  IF d > Len(new_bounds) THEN bounds
  ELSE MergeCropFrom(merge_crop_dim(bounds, d, new_bounds[d]), new_bounds, d + 1)

merge_crop(bounds, new_bounds) == MergeCropFrom(bounds, new_bounds, 1)

-----------------------------------------------------------------------------
(* Symbols and symbol maps                                                  *)

\* The number of symbols of the node_context the statements are built in.
NSyms == 8

Syms == 0..(NSyms - 1)

EmptyMap == Map([i \in Syms |-> None])

Contains(m, sym) == IsSome(m[sym])

-----------------------------------------------------------------------------
(* recursive_substitute                                                     *)

\* The largest number of rounds of recursive_substitute the model follows.
MaxSubstRounds == 4

SubstDim(dim, subs) ==
  <<<<SubstList(dim[1][1], subs), SubstList(dim[1][2], subs)>>, SubstList(dim[2], subs), SubstList(dim[3], subs)>>

RECURSIVE RecursiveSubstituteRounds(_, _, _)

\* Keep substituting until nothing happens; a round that changes a dim is
\* followed by another one.  "diverged" when MaxSubstRounds rounds all changed
\* something.
RecursiveSubstituteRounds(dims, subs, n) ==
  LET new_dims == Tuple([d \in DOMAIN dims |-> SubstDim(dims[d], subs)])
  IN  IF new_dims = dims THEN [dims |-> dims, rounds |-> n, diverged |-> FALSE]
      ELSE IF n >= MaxSubstRounds THEN [dims |-> new_dims, rounds |-> n, diverged |-> TRUE]
      ELSE RecursiveSubstituteRounds(new_dims, subs, n + 1)

recursive_substitute(dims, subs) == RecursiveSubstituteRounds(dims, subs, 1)

-----------------------------------------------------------------------------
(* bounds_inferrer                                                          *)

\* visit(const call_stmt*): record the bounds we currently have from the crops.
RECURSIVE RecordCrops(_, _, _)

RecordCrops(infer, crops, inputs) ==
  IF inputs = <<>> THEN infer
  ELSE LET i == Head(inputs)
       IN  RecordCrops(IF Contains(infer, i) THEN [infer EXCEPT ![i] = crops[i]] ELSE infer,
                       crops, Tail(inputs))

RECURSIVE SameStrideEverywhere(_, _, _, _)

\* The substitutions with a stride that is not multiplied up from one
\* dimension to the next.
SameStrideEverywhere(sym, bounds, d, stride) ==
  IF d > Len(bounds) THEN <<>>
  ELSE << <<buffer_min(sym, d), bounds[d][1]>>,
          <<buffer_max(sym, d), bounds[d][2]>>,
          <<buffer_stride(sym, d), stride>>,
          <<buffer_extent(sym, d), Extent(bounds[d])>> >>
       \o SameStrideEverywhere(sym, bounds, d + 1, stride)

\* The substitutions visit(const allocate*) builds from the inferred bounds.
RECURSIVE AllocSubstitutions(_, _, _, _)

AllocSubstitutions(sym, bounds, d, stride) ==
  IF d > Len(bounds) THEN <<>>
  ELSE LET extent == Extent(bounds[d])
       IN  << <<buffer_min(sym, d), bounds[d][1]>>,
              <<buffer_max(sym, d), bounds[d][2]>>,
              <<buffer_stride(sym, d), stride>>,
              <<buffer_extent(sym, d), extent>> >>
           \o AllocSubstitutions(sym, bounds, d + 1, MulE(stride, MinE(extent, buffer_fold_factor(sym, d))))

SubstInferEntry(entry, subs) ==
  IF ~IsSome(entry) THEN entry
  ELSE Some(Tuple([d \in DOMAIN Val(entry) |->
               <<SubstList(Val(entry)[d][1], subs), SubstList(Val(entry)[d][2], subs)>>]))

\* A faulty visit(const loop*): the interval is left as it was in the body.
IntervalOfBody(j, sym, bounds) == j

\* visit(const loop*): one interval of an in-flight buffer, on leaving the loop.
LoopHull(j, sym, bounds) ==
  << IF DependsOnE(j[1], sym)
       THEN MinE(substitute(j[1], sym, bounds[1]), substitute(j[1], sym, bounds[2]))
       ELSE j[1],
     IF DependsOnE(j[2], sym)
       THEN MaxE(substitute(j[2], sym, bounds[1]), substitute(j[2], sym, bounds[2]))
       ELSE j[2] >>

LoopHullEntry(entry, sym, bounds) ==
  IF ~IsSome(entry) THEN entry
  ELSE Some(Tuple([d \in DOMAIN Val(entry) |-> LoopHull(Val(entry)[d], sym, bounds)]))

\* The crop_buffer nodes visit(const loop*) wraps around the loop, one per
\* in-flight buffer, in increasing symbol order (the last is outermost).
RECURSIVE WrapCrops(_, _, _)

WrapCrops(result, infer, buf) ==
  IF buf >= NSyms THEN result
  ELSE WrapCrops(IF IsSome(infer[buf]) THEN CropBufferMake(buf, Val(infer[buf]), result) ELSE result,
                 infer, buf + 1)

\* What visit(const call_stmt*) and visit(const copy_stmt*) record, for the
\* trace: one "consume" entry per in-flight input.
ConsumeEvents(infer, crops, inputs) ==
  LET live == SelectSeq(inputs, LAMBDA i : Contains(infer, i))
  IN  Tuple([k \in 1..Len(live) |-> [ev |-> "consume", sym |-> live[k], crop |-> crops[live[k]]]])

\* The trace of visit(const loop*): one entry per in-flight buffer.
LoopEvents(before, after, s) ==
  LET live == SelectSeq(Tuple([k \in 1..NSyms |-> k - 1]), LAMBDA buf : IsSome(before[buf]))
  IN  Tuple([k \in 1..Len(live) |->
        [ev |-> "loop", sym |-> live[k], before |-> Val(before[live[k]]), after |-> Val(after[live[k]]),
         var |-> s[2], bounds |-> s[4], step |-> s[5]]])

RECURSIVE BoundsInferrer(_, _, _)

\* mutate(s) of a bounds_inferrer in state st = [infer, log, ub, diverged]
\* with crops in scope.  infer is the map of in-flight buffers; ub is set
\* when an empty optional was dereferenced at an allocate; diverged when
\* recursive_substitute did not come to rest; log is the trace of what the
\* visitor tracked.  The result is the new statement and the new state.
BoundsInferrer(s, st, crops) ==
  Strict(<<st, crops>>,
    CASE Tag(s) = "block" ->
           LET a == BoundsInferrer(s[2], st, crops)
               b == BoundsInferrer(s[3], a.st, crops)
           IN  Strict(a, Strict(b, [s |-> BlockMake(a.s, b.s), st |-> b.st]))
      [] Tag(s) = "call" ->
           [s |-> s, st |-> [st EXCEPT !.infer = RecordCrops(st.infer, crops, s[3]),
                                       !.log = @ \o ConsumeEvents(st.infer, crops, s[3])]]
      [] Tag(s) = "copy" ->
           [s |-> s, st |-> [st EXCEPT !.infer = RecordCrops(st.infer, crops, <<s[2]>>),
                                       !.log = @ \o ConsumeEvents(st.infer, crops, <<s[2]>>)]]
      [] Tag(s) = "crop_buffer" ->
           LET crop == merge_crop(crops[s[2]], s[3])
               ev == [ev |-> "crop", sym |-> s[2], outer |-> crops[s[2]],
                      node |-> s[3], tracked |-> crop]
               r == BoundsInferrer(s[4], [st EXCEPT !.log = Append(@, ev)], [crops EXCEPT ![s[2]] = crop])
           IN  [r EXCEPT !.s = WithBody(s, r.s)]
      [] Tag(s) = "crop_dim" ->
           LET crop == merge_crop_dim(crops[s[2]], s[3], s[4])
               ev == [ev |-> "crop", sym |-> s[2], outer |-> crops[s[2]],
                      node |-> Tuple([d \in 1..s[3] |-> IF d = s[3] THEN s[4] ELSE IntervalUndef]),
                      tracked |-> crop]
               r == BoundsInferrer(s[5], [st EXCEPT !.log = Append(@, ev)], [crops EXCEPT ![s[2]] = crop])
           IN  [r EXCEPT !.s = WithBody(s, r.s)]
      [] Tag(s) = "let" ->
           LET r == BoundsInferrer(s[4], st, crops)
           IN  [r EXCEPT !.s = WithBody(s, r.s)]
      [] Tag(s) = "loop" ->
           LET r == BoundsInferrer(s[6], st, crops)
               result == WithBody(s, r.s)
               inf2 == Map([buf \in Syms |-> LoopHullEntry(r.st.infer[buf], s[2], s[4])])
           IN  Strict(r, [s |-> WrapCrops(result, inf2, 0),
                          st |-> [r.st EXCEPT !.infer = inf2, !.log = @ \o LoopEvents(r.st.infer, inf2, s)]])
      [] Tag(s) = "allocate" ->
           LET sym == s[2]
               r == BoundsInferrer(s[5], [st EXCEPT !.infer[sym] = Some(<<>>)], crops)
               ub == ~IsSome(r.st.infer[sym])
               bounds == IF ub THEN <<>> ELSE Val(r.st.infer[sym])
               subs == AllocSubstitutions(sym, bounds, 1, Const(s[3]))
               rs == recursive_substitute(s[4], subs)
               inf2 == Map([buf \in Syms |-> SubstInferEntry(r.st.infer[buf], subs)])
               ev == [ev |-> "allocate", sym |-> sym, bounds |-> bounds, ub |-> ub]
           IN  Strict(r, [s |-> AllocateMake(sym, s[3], rs.dims, r.s),
                          st |-> [infer |-> [inf2 EXCEPT ![sym] = st.infer[sym]],
                                  log |-> Append(r.st.log, ev),
                                  ub |-> r.st.ub \/ ub,
                                  diverged |-> r.st.diverged \/ rs.diverged]])
      [] OTHER -> [s |-> s, st |-> st])

RECURSIVE FoldFactorAtMostExtent(_, _, _)

\* The checks with the third one turned round: buffer_fold_factor <= extent.
FoldFactorAtMostExtent(i, bounds, d) ==
  IF d > Len(bounds) THEN <<>>
  ELSE << CheckLE(buffer_min(i, d), bounds[d][1]),
          CheckLE(bounds[d][2], buffer_max(i, d)),
          CheckLE(buffer_fold_factor(i, d), Extent(bounds[d])) >>
       \o FoldFactorAtMostExtent(i, bounds, d + 1)

\* The checks infer_bounds emits for the formal inputs.
RECURSIVE InputChecksDims(_, _, _)

InputChecksDims(i, bounds, d) ==
  IF d > Len(bounds) THEN <<>>
  ELSE << CheckLE(buffer_min(i, d), bounds[d][1]),
          CheckLE(bounds[d][2], buffer_max(i, d)),
          CheckLE(Extent(bounds[d]), buffer_fold_factor(i, d)) >>
       \o InputChecksDims(i, bounds, d + 1)

RECURSIVE InputChecks(_, _)

InputChecks(inputs, infer) ==
  IF inputs = <<>> THEN <<>>
  ELSE (IF IsSome(infer[Head(inputs)]) THEN InputChecksDims(Head(inputs), Val(infer[Head(inputs)]), 1) ELSE <<>>)
       \o InputChecks(Tail(inputs), infer)

\* The checks put behind the statement instead of in front of it.
InputChecksBehind(inputs, r) ==
  [s |-> BlockMake(r.s, BlockOf(InputChecks(inputs, r.st.infer))),
   infer |-> r.st.infer,
   log |-> r.st.log,
   ub |-> r.st.ub,
   diverged |-> r.st.diverged]

\* The end of infer_bounds(s, inputs), r being what the bounds inferrer
\* returned: the checks on the inputs are put in front of its statement.
WithInputChecks(inputs, r) ==
  [s |-> BlockMake(BlockOf(InputChecks(inputs, r.st.infer)), r.s),
   infer |-> r.st.infer,
   log |-> r.st.log,
   ub |-> r.st.ub \/ \E i \in Range(inputs) : ~IsSome(r.st.infer[i]),
   diverged |-> r.st.diverged]

\* infer_bounds(s, inputs) of the anonymous namespace: the bounds inferrer, then
\* the checks on the inputs in front.
infer_bounds(s, inputs) ==
  WithInputChecks(inputs,
    BoundsInferrer(s, [infer |-> Map([i \in Syms |-> IF i \in Range(inputs) THEN Some(<<>>) ELSE None]),
                       log |-> <<>>, ub |-> FALSE, diverged |-> FALSE], EmptyMap))

-----------------------------------------------------------------------------
(* interval_expr operators                                                  *)

\* interval::operator&=
IntervalAnd(l, r) == <<MinE(l[1], r[1]), MaxE(l[2], r[2])>>

\* interval::operator|=
IntervalOr(l, r) == <<MinE(l[1], r[1]), MaxE(l[2], r[2])>>

-----------------------------------------------------------------------------
(* What slide_and_fold_storage asks of the simplifier                       *)

\* prove_true(a <= b)
ProveLE(a, b) == Defined(a) /\ Defined(b) /\ KnownLE(a, b)

\* prove_true(a < b)
ProveLT(a, b) == Defined(a) /\ Defined(b) /\ KnownLE(AddE(a, Const(1)), b)

\* bounds_of(e).max, with no bounds known for the variables of e.
BoundsOfMax(e) == e

\* where_true(lhs <= rhs, x).max: the largest x for which lhs <= rhs, or
\* negative infinity when the solver finds none.  lhs must be affine in x with
\* a positive coefficient.
where_true_max(lhs, rhs, x, solver) ==
  LET a == Coef(lhs, <<"var", x>>)
      rest == SubE(lhs, ScaleE(a, Var(x)))
  IN  IF solver = "exact" /\ a > 0 /\ ~DependsOnE(rest, x) /\ ~DependsOnE(rhs, x)
      THEN DivE(SubE(rhs, rest), a)
      ELSE negative_infinity

\* The symbol of the unknown "_x" and of "<loop>.min_orig" of the loop at
\* nesting depth n.
XSym == NSyms - 1

OrigMinSym(n) == NSyms - 1 - n

\* substitute_bounds(expr, sym, box)
SubstBoundsE(e, sym, box) ==
  LET subs == Tuple([k \in 1..(3 * Len(box)) |->
                 LET d == ((k - 1) \div 3) + 1
                     w == (k - 1) % 3
                 IN  IF w = 0 THEN <<buffer_min(sym, d), box[d][1]>>
                     ELSE IF w = 1 THEN <<buffer_max(sym, d), box[d][2]>>
                     ELSE <<buffer_extent(sym, d), Extent(box[d])>>])
      ok == SelectSeq(subs, LAMBDA q : Defined(q[2]))
  IN  SubstList(e, ok)

RECURSIVE SubstituteBoundsFrom(_, _, _)

\* substitute_bounds(box_expr&, const symbol_map<box_expr>&)
SubstituteBoundsFrom(bounds, buffers, i) ==
  IF i >= NSyms \/ bounds = <<>> THEN bounds
  ELSE SubstituteBoundsFrom(
         IF IsSome(buffers[i])
           THEN Tuple([d \in DOMAIN bounds |-> <<SubstBoundsE(bounds[d][1], i, Val(buffers[i])),
                                           SubstBoundsE(bounds[d][2], i, Val(buffers[i]))>>])
           ELSE bounds,
         buffers, i + 1)

substitute_bounds(bounds, buffers) == SubstituteBoundsFrom(bounds, buffers, 0)

-----------------------------------------------------------------------------
(* Free symbols of expressions and statements                               *)

RECURSIVE SymsOfE(_), SymsOfAtom(_)

SymsOfE(e) == IF Defined(e) THEN UNION {SymsOfAtom(a) : a \in AtomsOf(e)} ELSE {}

SymsOfAtom(a) ==
  CASE a[1] = "var" -> {a[2]}
    [] a[1] = "bmeta" -> {a[3]}
    [] a[1] \in {"min", "max"} -> UNION {SymsOfE(x) : x \in a[2]}
    [] a[1] \in {"mul", "align_up", "div"} -> SymsOfE(a[2]) \cup SymsOfE(a[3])
    [] a[1] = "abs" -> SymsOfE(a[2])
    [] a[1] = "select" -> SymsOfE(a[2][1]) \cup SymsOfE(a[2][2]) \cup SymsOfE(a[3]) \cup SymsOfE(a[4])
    [] OTHER -> {}

SymsOfBox(box) == UNION {SymsOfE(box[d][1]) \cup SymsOfE(box[d][2]) : d \in DOMAIN box}

SymsOfDims(dims) ==
  UNION {SymsOfE(dims[d][1][1]) \cup SymsOfE(dims[d][1][2]) \cup SymsOfE(dims[d][2]) \cup SymsOfE(dims[d][3]) :
           d \in DOMAIN dims}

RECURSIVE FreeSyms(_)

\* The symbols a statement uses without binding them.
FreeSyms(s) ==
  CASE Tag(s) = "block" -> FreeSyms(s[2]) \cup FreeSyms(s[3])
    [] Tag(s) = "call" -> Range(s[3]) \cup Range(s[4])
    [] Tag(s) = "copy" -> {s[2], s[3]}
    [] Tag(s) = "check" -> SymsOfE(s[2]) \cup SymsOfE(s[3])
    [] Tag(s) = "allocate" -> SymsOfDims(s[4]) \cup (FreeSyms(s[5]) \ {s[2]})
    [] Tag(s) = "let" -> SymsOfE(s[3]) \cup (FreeSyms(s[4]) \ {s[2]})
    [] Tag(s) = "loop" -> SymsOfBox(<<s[4]>>) \cup SymsOfE(s[5]) \cup (FreeSyms(s[6]) \ {s[2]})
    [] Tag(s) = "crop_buffer" -> {s[2]} \cup SymsOfBox(s[3]) \cup FreeSyms(s[4])
    [] Tag(s) = "crop_dim" -> {s[2]} \cup SymsOfBox(<<s[4]>>) \cup FreeSyms(s[5])
    [] OTHER -> {}

-----------------------------------------------------------------------------
(* slide_and_fold_storage                                                   *)

\* ignore_loop_max: substitute infinity for the loop max.
IgnoreLoopMax(e, loop_max) == SubstE(e, loop_max, positive_infinity)

\* A faulty new_min: prev_bounds_d.max, without the + 1.
SlideNewMinOffByOne(prev) == prev[2]

\* new_min = simplify(prev_bounds_d.max + 1)
SlideNewMin(prev) == AddE(prev[2], Const(1))

\* A faulty fold factor of the sliding case: not rounded up to the loop step.
FoldFactorUnaligned(fold_factor, step) == fold_factor

\* fold_factor = simplify(align_up(fold_factor, loop_step))
SlideFoldFactor(fold_factor, step) == AlignUpE(fold_factor, step)

\* One step of the loop over d in visit_call_or_copy for loop number op: the
\* new state and whether the loop over d is left (break).  st.solver tells
\* whether where_true finds the new loop min.
SlideDim(st, output, op, d) ==
  LET bounds == Val(st.buffer_bounds[output])
      cur == bounds[d]
      L == st.loops[op]
      loop_sym == L.sym
      loop_max == L.bounds[2]
      ilm(e) == IgnoreLoopMax(e, loop_max)
      prev == <<substitute(cur[1], loop_sym, SubE(Var(loop_sym), L.step)),
                substitute(cur[2], loop_sym, SubE(Var(loop_sym), L.step))>>
      overlap == IntervalAnd(prev, cur)
      fold_factor == BoundsOfMax(ilm(Extent(cur)))
      old_min == cur[1]
      new_min == SlideNewMin(prev)
      new_min_at_new_loop_min == substitute(new_min, loop_sym, Var(XSym))
      old_min_at_loop_min == substitute(old_min, loop_sym, L.bounds[1])
      new_loop_min == where_true_max(ilm(new_min_at_new_loop_min), ilm(old_min_at_loop_min), XSym, st.solver)
      ev(kind) == [ev |-> kind, sym |-> output, dim |-> d, loop |-> loop_sym, cur |-> cur, prev |-> prev]
  IN  IF ~DependsOnInterval(cur, loop_sym) THEN [st |-> st, brk |-> FALSE]
      ELSE IF ProveLT(ilm(overlap[2]), ilm(overlap[1]))
        THEN [st |-> IF ~DependsOnE(fold_factor, loop_sym)
                       THEN [st EXCEPT !.fold_factors[output] = Some(<<d, fold_factor>>),
                                       !.log = Append(@, ev("fold"))]
                       ELSE st,
              brk |-> FALSE]
      ELSE IF ProveLE(ilm(prev[1]), ilm(cur[1])) /\ ProveLE(ilm(prev[2]), ilm(cur[2]))
        THEN LET st1 == IF ~DependsOnE(fold_factor, loop_sym)
                          THEN [st EXCEPT !.fold_factors[output] = Some(<<d, SlideFoldFactor(fold_factor, L.step)>>)]
                          ELSE st
                 st2 == IF ~is_negative_infinity(new_loop_min)
                          THEN [st1 EXCEPT !.loops[op].bounds[1] = new_loop_min,
                                           !.loops[op].moved = TRUE,
                                           !.buffer_bounds[output] = Some([bounds EXCEPT ![d][1] = new_min])]
                          ELSE [st1 EXCEPT !.buffer_bounds[output] =
                                  Some([bounds EXCEPT ![d][1] =
                                          SelectEqE(Var(loop_sym), L.orig_min, old_min, new_min)])]
             IN  [st |-> [st2 EXCEPT !.log = Append(@, ev("slide"))], brk |-> TRUE]
      ELSE [st |-> st, brk |-> FALSE]

RECURSIVE SlideDims(_, _, _, _)

\* The loop over d after dimension d gave r: left on break, else on to d + 1.
SlideDimsNext(r, output, op, d) == IF r.brk THEN r.st ELSE SlideDims(r.st, output, op, d + 1)

\* for (d = ...) of visit_call_or_copy, from dimension d on.
SlideDims(st, output, op, d) ==
  IF d > Len(Val(st.buffer_bounds[output])) THEN st
  ELSE SlideDimsNext(SlideDim(st, output, op, d), output, op, d)

RECURSIVE SlideLoops(_, _, _)

\* for (op = ...) of visit_call_or_copy, from loop number op on.
SlideLoops(st, output, op) ==
  IF op > Len(st.loops) THEN st ELSE SlideLoops(SlideDims(st, output, op, 1), output, op + 1)

RECURSIVE visit_call_or_copy(_, _)

\* visit_call_or_copy(op, outputs): the statement is kept, the state changes.
visit_call_or_copy(st, outputs) ==
  IF outputs = <<>> THEN st
  ELSE visit_call_or_copy(IF IsSome(st.buffer_bounds[Head(outputs)])
                            THEN SlideLoops(st, Head(outputs), 1) ELSE st,
                          Tail(outputs))

\* A faulty rewrite of an allocate: the recorded fold factor is not looked at
\* and every dimension is left unfolded.
FoldInfoIgnored(sym, dims, fold_info) ==
  LET rs == recursive_substitute(dims, Tuple([d \in DOMAIN dims |-> <<buffer_fold_factor(sym, d), positive_infinity>>]))
  IN  Tuple([d \in DOMAIN dims |-> [rs.dims[d] EXCEPT ![3] = Undef]])

\* The dims visit(const allocate*) gives the allocation: fold factors put in,
\* infinite ones erased.
FoldedDims(sym, dims, fold_info) ==
  LET replacements == Tuple([d \in DOMAIN dims |->
                         <<buffer_fold_factor(sym, d),
                           IF IsSome(fold_info) /\ Val(fold_info)[1] = d THEN Val(fold_info)[2]
                           ELSE positive_infinity>>])
      rs == recursive_substitute(dims, replacements)
  IN  Tuple([d \in DOMAIN dims |->
         IF is_positive_infinity(rs.dims[d][3]) THEN [rs.dims[d] EXCEPT ![3] = Undef] ELSE rs.dims[d]])

RECURSIVE SlideAndFold(_, _)

\* mutate(s) of a slide_and_fold_storage in state
\* st = [buffer_bounds, fold_factors, loops, solver, log].
\* A loop treated as serial whatever its mode.
NeverParallel(mode) == FALSE

\* op->mode == loop_mode::parallel: such a loop is only visited, it is not
\* pushed on the stack of loops to slide and fold over.
IsParallel(mode) == mode = "parallel"

SlideAndFold(s, st) ==
  Strict(st,
    CASE Tag(s) = "block" ->
           LET b == SlideAndFold(s[3], st)
               a == SlideAndFold(s[2], b.st)
           IN  Strict(b, Strict(a, [s |-> BlockMake(a.s, b.s), st |-> a.st]))
      [] Tag(s) \in {"call", "copy"} ->
           [s |-> s, st |-> visit_call_or_copy(st, IF Tag(s) = "call" THEN s[4] ELSE <<s[3]>>)]
      [] Tag(s) = "allocate" ->
           LET sym == s[2]
               bounds == Tuple([d \in DOMAIN s[4] |-> s[4][d][1]])
               r == SlideAndFold(s[5], [st EXCEPT !.buffer_bounds[sym] = Some(bounds)])
           IN  Strict(r, [s |-> AllocateMake(sym, s[3], FoldedDims(sym, s[4], r.st.fold_factors[sym]), r.s),
                          st |-> [r.st EXCEPT !.buffer_bounds[sym] = st.buffer_bounds[sym]]])
      [] Tag(s) = "crop_buffer" ->
           LET sym == s[2]
               merged == merge_crop(st.buffer_bounds[sym], s[3])
               bounds == IF IsSome(merged) THEN Some(substitute_bounds(Val(merged), st.buffer_bounds)) ELSE merged
               r == SlideAndFold(s[4], [st EXCEPT !.buffer_bounds[sym] = bounds])
               after == r.st.buffer_bounds[sym]
           IN  Strict(r, [s |-> CropBufferMake(sym, IF IsSome(after) THEN Val(after) ELSE s[3], r.s),
                          st |-> [r.st EXCEPT !.buffer_bounds[sym] = st.buffer_bounds[sym]]])
      [] Tag(s) = "crop_dim" ->
           LET sym == s[2]
               merged == merge_crop_dim(st.buffer_bounds[sym], s[3], s[4])
               bounds == IF IsSome(merged) THEN Some(substitute_bounds(Val(merged), st.buffer_bounds)) ELSE merged
               r == SlideAndFold(s[5], [st EXCEPT !.buffer_bounds[sym] = bounds])
               after == r.st.buffer_bounds[sym]
           IN  Strict(r, [s |-> CropDimMake(sym, s[3], IF IsSome(after) THEN Val(after)[s[3]] ELSE s[4], r.s),
                          st |-> [r.st EXCEPT !.buffer_bounds[sym] = st.buffer_bounds[sym],
                                              !.ub = @ \/ ~IsSome(merged)]])
      [] Tag(s) = "let" ->
           LET r == SlideAndFold(s[4], st)
           IN  [r EXCEPT !.s = WithBody(s, r.s)]
      [] Tag(s) = "loop" ->
           IF IsParallel(s[3])
             THEN LET r == SlideAndFold(s[6], st)
                  IN  [r EXCEPT !.s = WithBody(s, r.s)]
             ELSE LET n == Len(st.loops) + 1
                      orig_min == Var(OrigMinSym(n))
                      info == [sym |-> s[2], orig_min |-> orig_min, bounds |-> <<orig_min, s[4][2]>>,
                               step |-> s[5], moved |-> FALSE]
                      r == SlideAndFold(s[6], [st EXCEPT !.loops = Append(@, info)])
                      back == r.st.loops[n]
                      loop_min == IF back.moved THEN back.bounds[1] ELSE s[4][1]
                      st2 == [r.st EXCEPT !.loops = SubSeq(@, 1, n - 1)]
                  IN  Strict(r,
                        IF loop_min # orig_min \/ OrigMinSym(n) \in FreeSyms(r.s)
                          THEN [s |-> LetMake(OrigMinSym(n), s[4][1],
                                              LoopMake(s[2], s[3], <<loop_min, s[4][2]>>, s[5], r.s)),
                                st |-> st2]
                          ELSE [s |-> WithBody(s, r.s), st |-> st2])
      [] OTHER -> [s |-> s, st |-> st])

\* slide_and_fold_storage(ctx).mutate(s)
slide_and_fold_storage(s, solver) ==
  SlideAndFold(s, [buffer_bounds |-> EmptyMap, fold_factors |-> EmptyMap, loops |-> <<>>,
                   solver |-> solver, log |-> <<>>, ub |-> FALSE])

-----------------------------------------------------------------------------
(* input_crop_remover                                                       *)

\* A visit of a call or copy that marks nothing.
MarkNothing(used_as_output, outputs) == used_as_output

RECURSIVE MarkOutputs(_, _)

MarkOutputs(used_as_output, outputs) ==
  IF outputs = <<>> THEN used_as_output
  ELSE MarkOutputs([used_as_output EXCEPT ![Head(outputs)] = Some(TRUE)], Tail(outputs))

RECURSIVE InputCropRemover(_, _)

\* mutate(s) of an input_crop_remover whose map is used_as_output.
InputCropRemover(s, used_as_output) ==
  Strict(used_as_output,
    CASE Tag(s) = "block" ->
           LET a == InputCropRemover(s[2], used_as_output)
               b == InputCropRemover(s[3], a.used)
           IN  Strict(a, Strict(b, [s |-> BlockMake(a.s, b.s), used |-> b.used]))
      [] Tag(s) = "call" -> [s |-> s, used |-> MarkOutputs(used_as_output, s[4])]
      [] Tag(s) = "copy" -> [s |-> s, used |-> MarkOutputs(used_as_output, <<s[3]>>)]
      [] Tag(s) \in {"crop_buffer", "crop_dim"} ->
           LET sym == s[2]
               old_value == used_as_output[sym]
               r == InputCropRemover(BodyOf(s), [used_as_output EXCEPT ![sym] = Some(FALSE)])
           IN  IF ~Val(r.used[sym])
                 THEN [s |-> r.s, used |-> [r.used EXCEPT ![sym] = old_value]]
                 ELSE [s |-> WithBody(s, r.s), used |-> [r.used EXCEPT ![sym] = Some(TRUE)]]
      [] Tag(s) \in {"let", "loop", "allocate"} ->
           LET r == InputCropRemover(BodyOf(s), used_as_output)
           IN  [r EXCEPT !.s = WithBody(s, r.s)]
      [] OTHER -> [s |-> s, used |-> used_as_output])

\* input_crop_remover().mutate(s)
remove_input_crops(s) == InputCropRemover(s, EmptyMap).s

-----------------------------------------------------------------------------
(* scope_reducer                                                            *)

RECURSIVE for_each_stmt_forward(_)

\* The statements of a block in execution order.
for_each_stmt_forward(s) ==
  IF s = Nil THEN <<>>
  ELSE IF Tag(s) = "block" THEN for_each_stmt_forward(s[2]) \o for_each_stmt_forward(s[3])
  ELSE <<s>>

\* A backward visit that goes forward.
FirstToLast(s) == for_each_stmt_forward(s)

RECURSIVE for_each_stmt_backward(_)

\* The statements of a block, the last one first.
for_each_stmt_backward(s) ==
  IF s = Nil THEN <<>>
  ELSE IF Tag(s) = "block" THEN for_each_stmt_backward(s[3]) \o for_each_stmt_backward(s[2])
  ELSE <<s>>

\* depends_on(stmt, sym)
DependsOnStmt(s, sym) == sym \in FreeSyms(s)

Reverse(q) == Tuple([k \in DOMAIN q |-> q[Len(q) + 1 - k]])

\* A second pass that leaves everything in the new body.
NothingAfter(ss, sym, acc) == [acc EXCEPT !.new_body = BlockOf(Reverse(ss))]

RECURSIVE SplitForward(_, _, _), SplitBackward(_, _, _)

\* First, split the body into the before, and the new body + after: from the
\* first statement that depends on sym on, everything goes to the latter.
SplitForward(ss, sym, acc) ==
  IF ss = <<>> THEN acc
  ELSE IF acc.depended_on \/ DependsOnStmt(Head(ss), sym)
    THEN SplitForward(Tail(ss), sym,
                      [acc EXCEPT !.new_body_after = BlockMake(@, Head(ss)), !.depended_on = TRUE])
    ELSE SplitForward(Tail(ss), sym, [acc EXCEPT !.before = BlockMake(@, Head(ss))])

\* Now, split the new body + after into the new body and the after, ss being
\* its statements from the last one: until one depends on sym they go to the
\* after.
SplitBackward(ss, sym, acc) ==
  IF ss = <<>> THEN acc
  ELSE IF ~acc.depended_on /\ ~DependsOnStmt(Head(ss), sym)
    THEN SplitBackward(Tail(ss), sym, [acc EXCEPT !.after = BlockMake(Head(ss), @)])
    ELSE SplitBackward(Tail(ss), sym,
                       [acc EXCEPT !.new_body = BlockMake(Head(ss), @), !.depended_on = TRUE])

SplitResult(fwd, bwd) == [before |-> fwd.before, new_body |-> bwd.new_body, after |-> bwd.after]

SplitSecond(fwd, sym) ==
  SplitResult(fwd, SplitBackward(for_each_stmt_backward(fwd.new_body_after), sym,
                                 [new_body |-> Nil, after |-> Nil, depended_on |-> FALSE]))

\* split_body(body, var)
split_body(body, sym) ==
  SplitSecond(SplitForward(for_each_stmt_forward(body), sym,
                           [before |-> Nil, new_body_after |-> Nil, depended_on |-> FALSE]), sym)

\* The end of visit_stmt(op), body being the mutated body of op and parts what
\* split_body made of it.
VisitStmtResult(op, body, parts) ==
  IF body = BodyOf(op) /\ parts.before = Nil /\ parts.after = Nil THEN op
  ELSE IF parts.new_body # Nil
    THEN BlockMake(parts.before, BlockMake(WithBody(op, parts.new_body), parts.after))
  ELSE BlockMake(parts.before, parts.after)

VisitStmtSplit(op, body) == VisitStmtResult(op, body, split_body(body, op[2]))

RECURSIVE ScopeReducer(_)

\* mutate(s) of a scope_reducer.
ScopeReducer(s) ==
  CASE Tag(s) = "block" -> BlockMake(ScopeReducer(s[2]), ScopeReducer(s[3]))
    [] Tag(s) = "loop" -> WithBody(s, ScopeReducer(s[6]))
    [] Tag(s) \in {"let", "allocate", "crop_buffer", "crop_dim"} -> VisitStmtSplit(s, ScopeReducer(BodyOf(s)))
    [] OTHER -> s

\* reduce_scopes(s)
reduce_scopes(s) == ScopeReducer(s)

-----------------------------------------------------------------------------
(* The evaluator.  A buffer in scope is [alias, st, dims]: the storage it    *)
(* lives in and, per dimension, [min, max, fold, stride]; alias names the    *)
(* buffer a let bound it to.  A storage is [input, sym, cells]; the cells of *)
(* a formal input are not kept: the cell at c holds <<"in", sym, c>>.        *)
(* A callback is <<id, acc>>: acc gives, per input and dimension, the        *)
(* <<scale, lo, hi>> of the interval [scale*x + lo, scale*x + hi] it reads   *)
(* to produce the point x of its output, or the <<scale, lo, hi, "all">> of   *)
(* the interval [scale*x + lo, hi], whose max is the same for every x.       *)

Uninit == <<"uninit">>

OutOfBounds == <<"oob">>

RECURSIVE Resolve(_, _)

\* The symbol whose buffer sym names, through the lets that alias it.
Resolve(env, sym) ==
  IF IsSome(Val(env.bufs[sym]).alias) THEN Resolve(env, Val(Val(env.bufs[sym]).alias)) ELSE sym

Bound(env, sym) == IsSome(env.bufs[sym]) /\ IsSome(env.bufs[Resolve(env, sym)])

BufferOf(env, sym) == Val(env.bufs[Resolve(env, sym)])

\* The points of a box of rank 1 or 2, in increasing order, the first
\* dimension innermost.
PointsOf(box) ==
  LET e1 == Max2(0, box[1][2] - box[1][1] + 1)
      e2 == IF Len(box) >= 2 THEN Max2(0, box[2][2] - box[2][1] + 1) ELSE 1
  IN  Tuple([k \in 1..(e1 * e2) |->
         IF Len(box) >= 2 THEN <<box[1][1] + ((k - 1) % e1), box[2][1] + ((k - 1) \div e1)>>
         ELSE <<box[1][1] + (k - 1)>>])

BoxOfDims(dims) == Tuple([d \in DOMAIN dims |-> <<dims[d].min, dims[d].max>>])

\* Storage is indexed at c mod fold_factor.
SlotOf(dims, c) == Tuple([d \in DOMAIN dims |-> c[d] % dims[d].fold])

InBounds(dims, c) == \A d \in DOMAIN dims : dims[d].min <= c[d] /\ c[d] <= dims[d].max

ReadCell(m, buf, c) ==
  IF ~InBounds(buf.dims, c) THEN OutOfBounds
  ELSE IF m.stores[buf.st].input THEN <<"in", m.stores[buf.st].sym, c>>
  ELSE m.stores[buf.st].cells[SlotOf(buf.dims, c)]

\* The box one input is read over to produce the point x.
AccessBox(acc, x) ==
  Tuple([d \in DOMAIN acc |->
     <<acc[d][1] * x[d] + acc[d][2], IF Len(acc[d]) = 3 THEN acc[d][1] * x[d] + acc[d][3] ELSE acc[d][3]>>])

RECURSIVE RunCallback(_, _, _, _, _, _)

\* The callback of a call, point by point over the output's region: each
\* point reads its inputs and then writes the output.
RunCallback(fn, ins, out, points, m, rec) ==
  Strict(<<m, rec>>,
    IF points = <<>> THEN [m |-> m, rec |-> rec]
    ELSE LET x == Head(points)
             reads == Tuple([k \in DOMAIN ins |-> PointsOf(AccessBox(fn[2][k], x))])
             vals == Tuple([k \in DOMAIN ins |-> Tuple([j \in DOMAIN reads[k] |-> ReadCell(m, ins[k], reads[k][j])])])
             v == <<"f", fn[1], vals>>
             m1 == [m EXCEPT !.stores[out.st].cells[SlotOf(out.dims, x)] = v]
             rec1 == [rec EXCEPT !.w = @ \cup {x},
                                 !.r = Tuple([k \in DOMAIN ins |-> @[k] \cup Range(reads[k])]),
                                 !.oob = @ \/ \E k \in DOMAIN ins : OutOfBounds \in Range(vals[k])]
         IN  RunCallback(fn, ins, out, Tail(points), m1, rec1))

\* The dims of a buffer cropped to bounds (clamped to what it had); an
\* undefined bound leaves that side alone.
CropDims(dims, bounds, env) ==
  Tuple([d \in DOMAIN dims |->
     IF d \in DOMAIN bounds
       THEN [dims[d] EXCEPT
               !.min = IF Defined(bounds[d][1]) THEN Max2(@, EvalE(bounds[d][1], env)) ELSE @,
               !.max = IF Defined(bounds[d][2]) THEN Min2(@, EvalE(bounds[d][2], env)) ELSE @]
       ELSE dims[d]])

\* The dims of a new allocation.
AllocDims(dims, env) ==
  Tuple([d \in DOMAIN dims |->
     [min |-> EvalE(dims[d][1][1], env),
      max |-> EvalE(dims[d][1][2], env),
      fold |-> IF Defined(dims[d][3]) THEN EvalE(dims[d][3], env) ELSE Unfolded,
      stride |-> IF Defined(dims[d][2]) THEN EvalE(dims[d][2], env) ELSE 0]])

SlotsOf(dims) == {SlotOf(dims, c) : c \in Range(PointsOf(BoxOfDims(dims)))}

\* Every symbol an expression uses has a value.
ExprBound(e, env) ==
  \A a \in SymsOfE(e) : IsSome(env.vars[a]) \/ (IsSome(env.bufs[a]) /\ Bound(env, a))

BoxBound(box, env) ==
  \A d \in DOMAIN box : (Defined(box[d][1]) => ExprBound(box[d][1], env))
                        /\ (Defined(box[d][2]) => ExprBound(box[d][2], env))

Fail(m, why) == [m EXCEPT !.status = why]

RECURSIVE EvalStmt(_, _, _), EvalLoop(_, _, _, _)

\* evaluate(s, context): the memory after s has run in env from memory m.
EvalStmt(s, env, m) ==
  Strict(env,
    IF m.status # "ok" THEN m
    ELSE CASE Tag(s) = "block" -> EvalStmt(s[3], env, EvalStmt(s[2], env, m))
      [] Tag(s) = "check" ->
           IF ~(ExprBound(s[2], env) /\ ExprBound(s[3], env)) THEN Fail(m, "unbound")
           ELSE IF EvalE(s[2], env) <= EvalE(s[3], env) THEN m ELSE Fail(m, "check")
      [] Tag(s) = "let" ->
           IF ~ExprBound(s[3], env) THEN Fail(m, "unbound")
           ELSE IF IsAtomE(s[3]) /\ TheAtom(s[3])[1] = "var" /\ IsSome(env.bufs[TheAtom(s[3])[2]])
             THEN EvalStmt(s[4],
                           [env EXCEPT !.bufs[s[2]] = Some([alias |-> Some(TheAtom(s[3])[2]), st |-> 0, dims |-> <<>>]),
                                       !.vars[s[2]] = None], m)
           ELSE EvalStmt(s[4], [env EXCEPT !.vars[s[2]] = Some(EvalE(s[3], env)), !.bufs[s[2]] = None], m)
      [] Tag(s) = "loop" ->
           IF ~(BoxBound(<<s[4]>>, env) /\ ExprBound(s[5], env)) THEN Fail(m, "unbound")
           ELSE EvalLoop(s, EvalE(s[4][1], env), env, m)
      [] Tag(s) = "allocate" ->
           IF ~(\A a \in SymsOfDims(s[4]) : IsSome(env.vars[a]) \/ (IsSome(env.bufs[a]) /\ Bound(env, a)))
             THEN Fail(m, "unbound")
           ELSE LET dims == AllocDims(s[4], env)
                    st == Len(m.stores) + 1
                    store == [input |-> FALSE, sym |-> s[2], cells |-> Map([sl \in SlotsOf(dims) |-> Uninit])]
                IN  EvalStmt(s[5],
                             [env EXCEPT !.bufs[s[2]] = Some([alias |-> None, st |-> st, dims |-> dims]),
                                         !.vars[s[2]] = None],
                             [m EXCEPT !.stores = Append(@, store)])
      [] Tag(s) \in {"crop_buffer", "crop_dim"} ->
           LET bounds == IF Tag(s) = "crop_buffer" THEN s[3]
                         ELSE Tuple([d \in 1..s[3] |-> IF d = s[3] THEN s[4] ELSE IntervalUndef])
           IN  IF ~(IsSome(env.bufs[s[2]]) /\ Bound(env, s[2]) /\ BoxBound(bounds, env)) THEN Fail(m, "unbound")
               ELSE LET root == Resolve(env, s[2])
                        buf == BufferOf(env, s[2])
                    IN  EvalStmt(BodyOf(s),
                                 [env EXCEPT !.bufs[root] = Some([buf EXCEPT !.dims = CropDims(@, bounds, env)])],
                                 m)
      [] Tag(s) = "call" ->
           IF ~(\A b \in Range(s[3]) \cup Range(s[4]) : IsSome(env.bufs[b]) /\ Bound(env, b)) THEN Fail(m, "unbound")
           ELSE LET ins == Tuple([k \in DOMAIN s[3] |-> BufferOf(env, s[3][k])])
                    out == BufferOf(env, s[4][1])
                    rec0 == [fn |-> s[2][1], iter |-> m.iter,
                             out |-> Resolve(env, s[4][1]), ins |-> Tuple([k \in DOMAIN s[3] |-> Resolve(env, s[3][k])]),
                             w |-> {}, r |-> Tuple([k \in DOMAIN s[3] |-> {}]), oob |-> FALSE]
                    r == RunCallback(s[2], ins, out, PointsOf(BoxOfDims(out.dims)), m, rec0)
                IN  [r.m EXCEPT !.log = Append(@, r.rec)]
      [] OTHER -> m)

\* The iterations of a loop from the value i of its variable on.
EvalLoop(s, i, env, m) ==
  IF m.status # "ok" \/ i > EvalE(s[4][2], env) THEN m
  ELSE EvalLoop(s, i + EvalE(s[5], env), env,
                EvalStmt(s[6], [env EXCEPT !.vars[s[2]] = Some(i), !.bufs[s[2]] = None],
                         [m EXCEPT !.iter = @ + 1]))

-----------------------------------------------------------------------------
(* Bounds inference on its own: infer_bounds applied to statements of the   *)
(* shapes the builder emits around one intermediate buffer.                 *)

\* Symbols of the statements below.
InSym == 0

OutSym == 1

BufSym == 2

LoopSym == 3

Out2Sym == 4

Buf2Sym == 5

\* The largest coordinate, the largest extra width of a crop, and the
\* largest loop step the input statements use.
MaxCoord == 3

MaxWidth == 1

MaxStep == 2

ElemSize == 4

ConstInterval(lo, hi) == <<Const(lo), Const(hi)>>

\* The producer of buf: reads the formal input over the region buf has.
ProducerOf(buf) ==
  CropBufferMake(InSym, << <<buffer_min(buf, 1), buffer_max(buf, 1)>> >>, CallMake(1, <<InSym>>, <<buf>>))

\* One producer, two consumers that each crop buf to their own region.
TwoConsumers(a1, b1, a2, b2) ==
  AllocateMake(BufSym, ElemSize, PlaceholderDims(BufSym, 1),
    BlockOf(<< ProducerOf(BufSym),
               CropBufferMake(BufSym, <<ConstInterval(a1, b1)>>, CallMake(2, <<BufSym>>, <<OutSym>>)),
               CropBufferMake(BufSym, <<ConstInterval(a2, b2)>>, CallMake(3, <<BufSym>>, <<Out2Sym>>)) >>))

\* One producer, one consumer below two nested crops of buf.
NestedCrops(kind, a1, b1, a2, b2) ==
  AllocateMake(BufSym, ElemSize, PlaceholderDims(BufSym, 1),
    BlockOf(<< ProducerOf(BufSym),
               IF kind = "dim"
                 THEN CropDimMake(BufSym, 1, ConstInterval(a1, b1),
                        CropDimMake(BufSym, 1, ConstInterval(a2, b2), CallMake(2, <<BufSym>>, <<OutSym>>)))
                 ELSE CropBufferMake(BufSym, <<ConstInterval(a1, b1)>>,
                        CropBufferMake(BufSym, <<ConstInterval(a2, b2)>>, CallMake(2, <<BufSym>>, <<OutSym>>))) >>))

\* The region of buf a consumer needs at loop iteration i, by access pattern.
AccessShapes == {"shift", "flip", "mirror", "scale"}

AccessMin(shape) ==
  CASE shape = "shift" -> AddE(Var(LoopSym), Const(-1))
    [] shape = "flip" -> ScaleE(-1, Var(LoopSym))
    [] shape = "mirror" -> AbsE(Var(LoopSym))
    [] shape = "scale" -> ScaleE(2, Var(LoopSym))

\* One producer, one consumer in a loop that crops buf per iteration.
LoopConsumer(shape, w, lo, hi, step) ==
  AllocateMake(BufSym, ElemSize, PlaceholderDims(BufSym, 1),
    BlockOf(<< ProducerOf(BufSym),
               LoopMake(LoopSym, "serial", ConstInterval(lo, hi), Const(step),
                 CropBufferMake(BufSym, << <<AccessMin(shape), AddE(AccessMin(shape), Const(w))>> >>,
                   CallMake(2, <<BufSym>>, <<OutSym>>))) >>))

\* Statements whose allocation has no bounds to infer: nobody reads buf
\* ("unread"), its reader is not below a crop of buf ("uncropped"), its
\* reader's crop is stated in buf's own bounds widened by k ("self"), or two
\* allocations are each read over the bounds of the other ("mutual", the
\* second one k wider).
Unresolvable(kind, k) ==
  CASE kind = "unread" ->
         AllocateMake(BufSym, ElemSize, PlaceholderDims(BufSym, 1), ProducerOf(BufSym))
    [] kind = "uncropped" ->
         AllocateMake(BufSym, ElemSize, PlaceholderDims(BufSym, 1),
           BlockOf(<< ProducerOf(BufSym), CallMake(2, <<BufSym>>, <<OutSym>>) >>))
    [] kind = "self" ->
         AllocateMake(BufSym, ElemSize, PlaceholderDims(BufSym, 1),
           BlockOf(<< ProducerOf(BufSym),
                      CropBufferMake(BufSym, << <<buffer_min(BufSym, 1), AddE(buffer_max(BufSym, 1), Const(k))>> >>,
                        CallMake(2, <<BufSym>>, <<OutSym>>)) >>))
    [] kind = "mutual" ->
         AllocateMake(BufSym, ElemSize, PlaceholderDims(BufSym, 1),
           AllocateMake(Buf2Sym, ElemSize, PlaceholderDims(Buf2Sym, 1),
             BlockOf(<< ProducerOf(BufSym), ProducerOf(Buf2Sym),
                        CropBufferMake(BufSym, << <<buffer_min(Buf2Sym, 1), buffer_max(Buf2Sym, 1)>> >>,
                          CropBufferMake(Buf2Sym,
                            << <<buffer_min(BufSym, 1), AddE(buffer_max(BufSym, 1), Const(k))>> >>,
                            CallMake(2, <<BufSym, Buf2Sym>>, <<OutSym>>))) >>)))

UnresolvableKinds == {"unread", "uncropped", "self", "mutual"}

\* What a pass that ran into undefined behaviour leaves: the lowering goes
\* on with what the pass computed, or it stops there.
Outcomes(ub) == IF ub THEN {"continues", "stops"} ELSE {"continues"}

InferInputs ==
  {Unresolvable(kind, k) : kind \in UnresolvableKinds, k \in 0..MaxWidth}
  \cup {TwoConsumers(a1, a1 + w1, a2, a2 + w2) :
     a1 \in 0..MaxCoord, a2 \in 0..MaxCoord, w1 \in 0..MaxWidth, w2 \in 0..MaxWidth}
  \cup {NestedCrops(k, a1, a1 + w1, a2, a2 + w2) :
     k \in {"dim", "buffer"}, a1 \in 0..MaxCoord, a2 \in 0..MaxCoord, w1 \in 0..MaxWidth, w2 \in 0..MaxWidth}
  \cup {LoopConsumer(sh, w, lo, lo + n, st) :
     sh \in AccessShapes, w \in 0..MaxWidth, lo \in (0 - MaxStep)..0, n \in 0..MaxCoord, st \in 1..MaxStep}

NoAux == [log |-> <<>>]

InitInfer ==
  /\ phase = "built"
  /\ prog \in InferInputs
  /\ input = prog
  /\ aux = NoAux
  /\ run = <<>>

\* infer_bounds(s, inputs) of the anonymous namespace, on the statement at hand.
\* It returns a statement and has no other way to end: "error" stays "none".
\* When recursive_substitute does not come to an end it does not return
\* ("looping"); after dereferencing an empty optional it may stop.
InferBounds ==
  /\ phase = "built"
  /\ \E r \in {infer_bounds(prog, <<InSym>>)} :
       \E outcome \in Outcomes(r.ub) :
         /\ prog' = IF outcome = "continues" /\ ~r.diverged THEN r.s ELSE prog
         /\ aux' = [log |-> r.log, infer |-> r.infer, ub |-> r.ub, diverged |-> r.diverged, error |-> "none"]
         /\ phase' = CASE r.diverged -> "looping"
                        [] outcome = "stops" -> "stopped"
                        [] OTHER -> "inferred"
  /\ UNCHANGED <<input, run>>

NextInfer == InferBounds

SpecInfer == InitInfer /\ [][NextInfer]_vars

-----------------------------------------------------------------------------
(* Claims about bounds inference                                            *)

NoEnv == [vars |-> EmptyMap, bufs |-> EmptyMap]

LoopEnv(sym, i) == [vars |-> [EmptyMap EXCEPT ![sym] = Some(i)], bufs |-> EmptyMap]

LogEvents(kind) == {k \in DOMAIN aux.log : aux.log[k].ev = kind}

\* The values the loop variable takes: lo, lo + step, ... while <= hi.
Iterations(lo, hi, step) == {i \in lo..hi : (i - lo) % step = 0}

\* The coordinates an interval holds once its bounds are evaluated.
Region(iv, env) == EvalE(iv[1], env)..EvalE(iv[2], env)

\* The union over the iterations of the loop of a loop event e of the region
\* its buffer had in dimension d inside the loop.
RequiredOverLoop(e, d) ==
  UNION {Region(e.before[d], LoopEnv(e.var, i)) :
           i \in Iterations(EvalE(e.bounds[1], NoEnv), EvalE(e.bounds[2], NoEnv), EvalE(e.step, NoEnv))}

LoopHullCovers(e, d) == RequiredOverLoop(e, d) \subseteq Region(e.after[d], NoEnv)

LoopHullTight(e, d) ==
  LET req == RequiredOverLoop(e, d)
      got == Region(e.after[d], NoEnv)
  IN  IF req = {} THEN got = {} ELSE got = SetMin(req)..SetMax(req)

\* C3: when bounds_inferrer leaves a loop, every interval of an in-flight
\* buffer that used the loop variable is replaced by one that contains the
\* region every iteration lo, lo + step, ... <= hi requires, and that is no
\* larger than the smallest such interval.
C3_LoopUnionExact ==
  \A k \in LogEvents("loop") :
    \A d \in DOMAIN aux.log[k].before :
      DependsOnInterval(aux.log[k].before[d], aux.log[k].var)
        => LoopHullCovers(aux.log[k], d) /\ LoopHullTight(aux.log[k], d)

\* C4: when several consumers read one buffer, after bounds_inferrer has
\* visited all of them the region inferred for the buffer (the one its
\* allocate is given) covers the crop region of every one of them.
C4_InferCoversEveryConsumer ==
  \A k \in LogEvents("allocate") :
    \A c \in LogEvents("consume") :
      (c < k /\ aux.log[c].sym = aux.log[k].sym /\ IsSome(aux.log[c].crop) /\ ~aux.log[k].ub)
        => \A d \in DOMAIN Val(aux.log[c].crop) :
             /\ d \in DOMAIN aux.log[k].bounds
             /\ Region(Val(aux.log[c].crop)[d], NoEnv) \subseteq Region(aux.log[k].bounds[d], NoEnv)

\* The intersection of two intervals with constant bounds.
RegionOfCrop(o, d) ==
  IF IsSome(o) /\ d \in DOMAIN Val(o) /\ Defined(Val(o)[d][1]) /\ Defined(Val(o)[d][2])
  THEN Some(Region(Val(o)[d], NoEnv)) ELSE None

\* C8: entering a crop of a buffer that already has a crop in scope makes the
\* tracked region the intersection of the two, so nested crops only narrow it.
C8_NestedCropsIntersect ==
  \A k \in LogEvents("crop") :
    \A d \in DOMAIN aux.log[k].node :
      (IsSome(RegionOfCrop(aux.log[k].outer, d)) /\ Defined(aux.log[k].node[d][1]) /\ Defined(aux.log[k].node[d][2]))
        => Val(RegionOfCrop(aux.log[k].tracked, d))
             = Val(RegionOfCrop(aux.log[k].outer, d)) \cap Region(aux.log[k].node[d], NoEnv)

-----------------------------------------------------------------------------
(* buffer_aliaser                                                           *)

\* is_elementwise(in_x, out): match is structural equality.
is_elementwise(in_x, out) ==
  \A d \in DOMAIN in_x : in_x[d][1] = buffer_min(out, d) /\ in_x[d][2] = buffer_max(out, d)

\* buffer_info()
NewBufferInfo == [alias_candidates |-> {}, elementwise |-> TRUE]

\* The (output, input) pairs visit(const call_stmt*) walks, in its order.
CallPairs(op) ==
  Tuple([k \in 1..(Len(op[4]) * Len(op[3])) |->
     <<op[4][((k - 1) \div Len(op[3])) + 1], op[3][((k - 1) % Len(op[3])) + 1]>>])

RECURSIVE AliaserCall(_, _, _)

\* The loop of visit(const call_stmt*) over the remaining pairs; it returns at
\* the first input that is not elementwise.  An input without alias_info is
\* written through an empty optional (ub).
AliaserCall(pairs, st, buffer_bounds) ==
  IF pairs = <<>> THEN st
  ELSE LET o == Head(pairs)[1]
           i == Head(pairs)[2]
           in_x == buffer_bounds[i]
           info == st.alias_info[i]
       IN  IF ~IsSome(in_x) \/ ~IsSome(info)
             THEN IF IsSome(info) THEN [st EXCEPT !.alias_info[i] = Some([Val(info) EXCEPT !.elementwise = FALSE])]
                                  ELSE [st EXCEPT !.ub = TRUE]
           ELSE IF ~is_elementwise(Val(in_x), o)
             THEN [st EXCEPT !.alias_info[i] = Some([Val(info) EXCEPT !.elementwise = FALSE])]
           ELSE AliaserCall(Tail(pairs),
                            [st EXCEPT !.alias_info[i] = Some([Val(info) EXCEPT !.alias_candidates = @ \cup {o}])],
                            buffer_bounds)

\* For the trace: how a call reads each of its inputs that is an allocation in
\* scope, whatever the walk above looked at.
ReadEvents(op, st, buffer_bounds) ==
  LET live == SelectSeq(op[3], LAMBDA i : IsSome(st.alias_info[i]))
  IN  Tuple([k \in 1..Len(live) |->
        [ev |-> "read", sym |-> live[k], fn |-> op[2],
         elementwise |-> /\ IsSome(buffer_bounds[live[k]])
                         /\ \A o \in Range(op[4]) : is_elementwise(Val(buffer_bounds[live[k]]), o)]])

EraseCandidate(alias_info, target) ==
  Map([i \in Syms |-> IF IsSome(alias_info[i])
                    THEN Some([Val(alias_info[i]) EXCEPT !.alias_candidates = @ \ {target}])
                    ELSE None])

RECURSIVE BufferAliaser(_, _, _)

\* mutate(s) of a buffer_aliaser in state st = [alias_info, aliases, log, ub]
\* with buffer_bounds in scope.
BufferAliaser(s, st, buffer_bounds) ==
  Strict(<<st, buffer_bounds>>,
    CASE Tag(s) = "block" ->
           LET a == BufferAliaser(s[2], st, buffer_bounds)
               b == BufferAliaser(s[3], a.st, buffer_bounds)
           IN  Strict(a, Strict(b, [s |-> BlockMake(a.s, b.s), st |-> b.st]))
      [] Tag(s) = "call" ->
           LET st1 == AliaserCall(CallPairs(s), st, buffer_bounds)
           IN  [s |-> s, st |-> [st1 EXCEPT !.log = @ \o ReadEvents(s, st, buffer_bounds)]]
      [] Tag(s) = "crop_buffer" ->
           LET r == BufferAliaser(s[4], st, [buffer_bounds EXCEPT ![s[2]] = merge_crop(@, s[3])])
           IN  [r EXCEPT !.s = WithBody(s, r.s)]
      [] Tag(s) = "crop_dim" ->
           LET r == BufferAliaser(s[5], st, [buffer_bounds EXCEPT ![s[2]] = merge_crop_dim(@, s[3], s[4])])
           IN  [r EXCEPT !.s = WithBody(s, r.s)]
      [] Tag(s) \in {"let", "loop"} ->
           LET r == BufferAliaser(BodyOf(s), st, buffer_bounds)
           IN  [r EXCEPT !.s = WithBody(s, r.s)]
      [] Tag(s) = "allocate" ->
           LET sym == s[2]
               bounds == Tuple([d \in DOMAIN s[4] |-> s[4][d][1]])
               r == BufferAliaser(s[5], [st EXCEPT !.alias_info[sym] = Some(NewBufferInfo)],
                                  [buffer_bounds EXCEPT ![sym] = Some(bounds)])
               info == Val(r.st.alias_info[sym])
               target == SetMin(info.alias_candidates)
           IN  Strict(r,
                 IF info.elementwise /\ info.alias_candidates # {}
                   THEN [s |-> LetMake(sym, Var(target), r.s),
                         st |-> [r.st EXCEPT !.aliases[sym] = Some(target),
                                             !.alias_info = [EraseCandidate(@, target) EXCEPT ![sym] = st.alias_info[sym]],
                                             !.log = Append(@, [ev |-> "alias", sym |-> sym, target |-> target])]]
                   ELSE [s |-> WithBody(s, r.s),
                         st |-> [r.st EXCEPT !.alias_info[sym] = st.alias_info[sym]]])
      [] OTHER -> [s |-> s, st |-> st])

\* alias_buffers(s)
alias_buffers(s) ==
  BufferAliaser(s, [alias_info |-> EmptyMap, aliases |-> EmptyMap, log |-> <<>>, ub |-> FALSE], EmptyMap)

-----------------------------------------------------------------------------
(* Buffer aliasing on its own: alias_buffers applied to statements with two *)
(* allocations whose bounds bounds inference has already filled in.         *)

\* The bounds an allocation can have: those of an output buffer (what bounds
\* inference gives a buffer consumed point by point), or padded by one on each
\* side (a buffer consumed by a stencil).
SameAs(out) == << <<buffer_min(out, 1), buffer_max(out, 1)>> >>

Padded(out) == << <<AddE(buffer_min(out, 1), Const(-1)), AddE(buffer_max(out, 1), Const(1))>> >>

AllocBounds == {SameAs(OutSym), SameAs(Out2Sym), Padded(OutSym)}

DimsOfBox(box) == Tuple([d \in DOMAIN box |-> <<box[d], Const(ElemSize), Undef>>])

Alloc(sym, box, body) == AllocateMake(sym, ElemSize, DimsOfBox(box), body)

\* The call producing buf, from the formal input or from nothing.
Produce(buf, from) == CallMake(1, IF from = "input" THEN <<InSym>> ELSE <<>>, <<buf>>)

AliasShapes == {"siblings", "common", "late", "readers", "chain", "chain_crop"}

AliasInput(shape, dA, dB, from, swap) ==
  LET A == BufSym
      B == Buf2Sym
      both == IF swap THEN <<B, A>> ELSE <<A, B>>
  IN  CASE shape = "siblings" ->
             BlockOf(<< Alloc(A, dA, BlockOf(<<Produce(A, from), CallMake(2, <<A>>, <<OutSym>>)>>)),
                        Alloc(B, dB, BlockOf(<<Produce(B, from), CallMake(3, <<B>>, <<OutSym>>)>>)) >>)
        [] shape = "common" ->
             Alloc(A, dA, Alloc(B, dB,
               BlockOf(<<Produce(A, from), Produce(B, from), CallMake(2, both, <<OutSym>>)>>)))
        [] shape = "late" ->
             Alloc(A, dA,
               BlockOf(<< Produce(A, from),
                          Alloc(B, dB, BlockOf(<<Produce(B, from), CallMake(2, <<B>>, <<OutSym>>)>>)),
                          CallMake(3, <<A>>, <<OutSym>>) >>))
        [] shape = "readers" ->
             Alloc(A, dA, Alloc(B, dB,
               BlockOf(<< Produce(A, from), Produce(B, from),
                          CallMake(2, both, <<OutSym>>), CallMake(3, <<A>>, <<Out2Sym>>) >>)))
        [] shape = "chain" ->
             Alloc(A, dA,
               BlockOf(<< Produce(A, from),
                          Alloc(B, dB, BlockOf(<<CallMake(2, <<A>>, <<B>>), CallMake(3, <<B>>, <<OutSym>>)>>)) >>))
        [] shape = "chain_crop" ->
             Alloc(A, dA,
               BlockOf(<< Produce(A, from),
                          Alloc(B, dB,
                            BlockOf(<< CropBufferMake(A, SameAs(B), CallMake(2, <<A>>, <<B>>)),
                                       CallMake(3, <<B>>, <<OutSym>>) >>)) >>))

AliasInputs ==
  {AliasInput(sh, dA, dB, from, swap) :
     sh \in AliasShapes, dA \in AllocBounds, dB \in AllocBounds, from \in {"input", "nothing"}, swap \in BOOLEAN}

InitAlias ==
  /\ phase = "reduced"
  /\ prog \in AliasInputs
  /\ input = prog
  /\ aux = NoAux
  /\ run = <<>>

\* alias_buffers(s) on the statement at hand.  When the walk wrote through an
\* empty optional, the outcome is the build's: it goes on as if nothing had
\* been written, or it stops.
AliasBuffers ==
  /\ phase = "reduced"
  /\ \E r \in {alias_buffers(prog)} :
       \E outcome \in (IF r.st.ub THEN {"continues", "stops"} ELSE {"continues"}) :
         /\ prog' = IF outcome = "continues" THEN r.s ELSE prog
         /\ aux' = [log |-> r.st.log, aliases |-> r.st.aliases, ub |-> r.st.ub]
         /\ phase' = IF outcome = "continues" THEN "aliased" ELSE "stopped"
  /\ UNCHANGED <<input, run>>

NextAlias == AliasBuffers

SpecAlias == InitAlias /\ [][NextAlias]_vars

-----------------------------------------------------------------------------
(* Claims about buffer aliasing                                             *)

\* C5: an allocation is replaced by an alias only if every call that reads it
\* reads it elementwise.
C5_AliasOnlyIfEveryReaderElementwise ==
  phase = "aliased" =>
    \A k \in LogEvents("alias") :
      \A r \in LogEvents("read") :
        (r < k /\ aux.log[r].sym = aux.log[k].sym) => aux.log[r].elementwise

\* C6: an output buffer chosen as the alias target of one allocation is not
\* chosen again for another.
C6_TargetAliasedAtMostOnce ==
  phase = "aliased" =>
    \A k1, k2 \in LogEvents("alias") :
      aux.log[k1].target = aux.log[k2].target => k1 = k2

\* C7: the statement alias_buffers returns has no free symbol the statement
\* it was given did not have; the alias target is bound where the let is.
C7_AliasKeepsSymbolsBound ==
  phase = "aliased" => FreeSyms(prog) \subseteq FreeSyms(input)

-----------------------------------------------------------------------------
(* The pipeline builder.  A graph is [rank, inputs, output, funcs, loop,     *)
(* nest]: funcs in topological order, each [id, ins, out] with ins a         *)
(* sequence of [buf, acc]; loop is the explicit loop of the last func over   *)
(* the outermost dimension of the output, at which every other func is       *)
(* computed; nest says whether the allocation of a producer encloses that of *)
(* its consumer or the other way round.                                      *)

Elementwise(r) == Tuple([d \in 1..r |-> <<1, 0, 0>>])

\* The call of a func: its callback carries the accesses.
CallOf(f) == CallMake(<<f.id, Tuple([k \in DOMAIN f.ins |-> f.ins[k].acc])>>, Tuple([k \in DOMAIN f.ins |-> f.ins[k].buf]), <<f.out>>)

\* The region of an input that the region box of the output needs.
AccessOf(acc, box) ==
  Tuple([d \in DOMAIN acc |->
     <<AddE(ScaleE(acc[d][1], box[d][1]), Const(acc[d][2])),
       IF Len(acc[d]) = 3 THEN AddE(ScaleE(acc[d][1], box[d][2]), Const(acc[d][3])) ELSE Const(acc[d][3])>>])

BufferBox(sym, r) == Tuple([d \in 1..r |-> <<buffer_min(sym, d), buffer_max(sym, d)>>])

RECURSIVE CropInputs(_, _, _, _)

\* The call of f inside a crop of each of its inputs to what the region box
\* of its output needs.
CropInputs(f, box, k, body) ==
  IF k > Len(f.ins) THEN body
  ELSE CropInputs(f, box, k + 1, CropBufferMake(f.ins[k].buf, AccessOf(f.ins[k].acc, box), body))

produce(f, box) == CropInputs(f, box, 1, CallOf(f))

\* The region of the output one iteration of the loop computes.
LoopBox(g, loop_sym) ==
  Tuple([d \in 1..g.rank |->
     IF d = g.rank
       THEN <<Var(loop_sym), MinE(AddE(Var(loop_sym), Const(Val(g.loop).step - 1)), buffer_max(g.output, d))>>
       ELSE <<buffer_min(g.output, d), buffer_max(g.output, d)>>])

RECURSIVE RequiredBox(_, _, _, _)

\* The region of buf one iteration of the loop needs: what its consumer
\* (the first func after number n that reads it) reads to compute its own.
RequiredBox(g, buf, n, loop_sym) ==
  IF buf = g.output THEN LoopBox(g, loop_sym)
  ELSE LET f == g.funcs[n]
           ks == {k \in DOMAIN f.ins : f.ins[k].buf = buf}
       IN  IF ks = {} THEN RequiredBox(g, buf, n + 1, loop_sym)
           ELSE AccessOf(f.ins[CHOOSE k \in ks : TRUE].acc, RequiredBox(g, f.out, n + 1, loop_sym))

RECURSIVE ProduceAll(_, _, _)

\* The funcs from number n on, one after the other; inside a loop each
\* intermediate is cropped to what the iteration needs of it.
ProduceAll(g, n, loop_sym) ==
  IF n > Len(g.funcs) THEN Nil
  ELSE LET f == g.funcs[n]
           one == IF ~IsSome(g.loop) THEN produce(f, BufferBox(f.out, g.rank))
                  ELSE IF f.out = g.output
                    THEN CropDimMake(f.out, g.rank, LoopBox(g, loop_sym)[g.rank], produce(f, LoopBox(g, loop_sym)))
                  ELSE CropBufferMake(f.out, RequiredBox(g, f.out, n + 1, loop_sym),
                                      produce(f, BufferBox(f.out, g.rank)))
       IN  BlockMake(one, ProduceAll(g, n + 1, loop_sym))

RECURSIVE Allocations(_, _, _)

\* The allocations of the intermediates in order around body.
Allocations(g, order, body) ==
  IF order = <<>> THEN body
  ELSE Allocations(g, Tail(order), AllocateMake(Head(order), ElemSize, PlaceholderDims(Head(order), g.rank), body))

Intermediates(g) == SelectSeq(Tuple([n \in DOMAIN g.funcs |-> g.funcs[n].out]), LAMBDA b : b # g.output)

\* The statement the builder makes of a graph.
build(g, loop_sym) ==
  LET body == ProduceAll(g, 1, loop_sym)
      looped == IF IsSome(g.loop)
                  THEN LoopMake(loop_sym, Val(g.loop).mode,
                                <<buffer_min(g.output, g.rank), buffer_max(g.output, g.rank)>>,
                                Const(Val(g.loop).step), body)
                  ELSE body
      order == IF g.nest = "producer_outside" THEN Reverse(Intermediates(g)) ELSE Intermediates(g)
  IN  Allocations(g, order, looped)

\* The value the straight computation gives buf at x, stage by stage.
RECURSIVE RefVal(_, _, _)

RefVal(g, buf, x) ==
  IF buf \in Range(g.inputs) THEN <<"in", buf, x>>
  ELSE LET f == g.funcs[CHOOSE n \in DOMAIN g.funcs : g.funcs[n].out = buf]
       IN  <<"f", f.id, Tuple([k \in DOMAIN f.ins |->
                            LET pts == PointsOf(AccessBox(f.ins[k].acc, x))
                            IN  Tuple([j \in DOMAIN pts |-> RefVal(g, f.ins[k].buf, pts[j])])])>>

-----------------------------------------------------------------------------
(* The whole pipeline: a graph is built, lowered by infer_bounds pass by     *)
(* pass, and the final statement is evaluated on buffers of the caller.      *)

MaxN == 4

MaxScale == 2

MaxReach == 1

\* The accesses of rank 1: [scale*x - below, scale*x + above].
Accesses == {<< <<a, 0 - lo, hi>> >> : a \in 1..MaxScale, lo \in 0..MaxReach, hi \in 0..MaxReach}

Func(id, ins, out) == [id |-> id, ins |-> ins, out |-> out]

In(buf, acc) == [buf |-> buf, acc |-> acc]

NoLoop == None

LoopOf(step, mode) == Some([step |-> step, mode |-> mode])

LoopChoices == {NoLoop} \cup {LoopOf(step, "serial") : step \in 1..MaxStep} \cup {LoopOf(1, "parallel")}

Graph(rank, inputs, output, funcs, loop, nest) ==
  [rank |-> rank, inputs |-> inputs, output |-> output, funcs |-> funcs, loop |-> loop, nest |-> nest]

\* out = f(in), as in the test pipeline_trivial.
Trivial == {Graph(1, <<InSym>>, OutSym, <<Func(1, <<In(InSym, Elementwise(1))>>, OutSym)>>, loop, "producer_outside") :
              loop \in LoopChoices}

\* intm = f(in), out = g(intm), as in the test pipeline_elementwise_1d, with
\* the accesses and the loop left open.
TwoStage ==
  {Graph(1, <<InSym>>, OutSym,
         <<Func(1, <<In(InSym, a1)>>, BufSym), Func(2, <<In(BufSym, a2)>>, OutSym)>>, loop, "producer_outside") :
     a1 \in {Elementwise(1), << <<1, -1, 1>> >>}, a2 \in Accesses, loop \in LoopChoices}

\* The access [x, MaxN + MaxReach + 1]: from x to a fixed end beyond what any
\* other func reads.
Suffix == << <<1, 0, MaxN + MaxReach + 1, "all">> >>

\* a = f(in), b = g(a), out = h(b): two intermediates, one after the other.
Chain ==
  {Graph(1, <<InSym>>, OutSym,
         <<Func(1, <<In(InSym, Elementwise(1))>>, BufSym),
           Func(2, <<In(BufSym, a2)>>, Out2Sym),
           Func(3, <<In(Out2Sym, a3)>>, OutSym)>>, loop, "producer_outside") :
     a2 \in {Elementwise(1), << <<1, -1, 1>> >>, Suffix}, a3 \in {Elementwise(1), << <<1, -1, 1>> >>},
     loop \in LoopChoices}

\* a = f(in), b = g(a), out = h(a, b), all elementwise; the symbols of b and
\* out are taken in either order.
Diamond ==
  {Graph(1, <<InSym>>, out,
         <<Func(1, <<In(InSym, Elementwise(1))>>, BufSym),
           Func(2, <<In(BufSym, Elementwise(1))>>, Out2Sym),
           Func(3, <<In(BufSym, Elementwise(1)), In(Out2Sym, Elementwise(1))>>, out)>>, NoLoop, nest) :
     out \in {OutSym, Buf2Sym}, nest \in {"producer_outside", "consumer_outside"}}

\* max(a + b, 0) * c in two dimensions, as in the test elementwise.
MaxAB0C ==
  {Graph(2, <<0, 1, 2>>, 5,
         <<Func(1, <<In(0, Elementwise(2)), In(1, Elementwise(2))>>, 3),
           Func(2, <<In(3, Elementwise(2))>>, 4),
           Func(3, <<In(4, Elementwise(2)), In(2, Elementwise(2))>>, 5)>>, NoLoop, nest) :
     nest \in {"producer_outside", "consumer_outside"}}

Graphs == Trivial \cup TwoStage \cup Chain \cup Diamond \cup MaxAB0C

IsElementwiseGraph(g) ==
  \A n \in DOMAIN g.funcs : \A k \in DOMAIN g.funcs[n].ins : g.funcs[n].ins[k].acc = Elementwise(g.rank)

\* The buffers of the caller: the output covers [omin, omin + n - 1] in
\* every dimension, the inputs everything a func can reach from there.
InReach == MaxScale * MaxScale * (MaxN + 2) + 2 * MaxReach + 2

OutputBox(in) == Tuple([d \in 1..in.g.rank |-> <<in.omin, in.omin + in.n - 1>>])

\* The bounds of the caller's input buffers: wide enough for whatever the
\* pipeline reads, or just those of the output.
InputBox(in) == IF in.wide THEN Tuple([d \in 1..in.g.rank |-> <<0 - InReach, InReach>>]) ELSE OutputBox(in)

CallerDims(box) == Tuple([d \in DOMAIN box |-> [min |-> box[d][1], max |-> box[d][2], fold |-> Unfolded, stride |-> 0]])

CallerBuffers(in) ==
  LET g == in.g
      K == Len(g.inputs)
  IN  [env |-> [vars |-> EmptyMap,
                bufs |-> Map([b \in Syms |->
                            IF b = g.output
                              THEN Some([alias |-> None, st |-> K + 1, dims |-> CallerDims(OutputBox(in))])
                            ELSE IF \E k \in 1..K : g.inputs[k] = b
                              THEN Some([alias |-> None, st |-> CHOOSE k \in 1..K : g.inputs[k] = b,
                                         dims |-> CallerDims(InputBox(in))])
                            ELSE None])],
       m |-> [status |-> "ok", iter |-> 0, log |-> <<>>,
              stores |-> Tuple([k \in 1..(K + 1) |->
                            IF k <= K THEN [input |-> TRUE, sym |-> g.inputs[k], cells |-> <<>>]
                            ELSE [input |-> FALSE, sym |-> g.output,
                                  cells |-> Map([sl \in SlotsOf(CallerDims(OutputBox(in))) |-> Uninit])]])]]

\* pipeline::evaluate: the final statement on the caller's buffers; what is
\* kept is the status, what the output holds, and the calls that ran.
evaluate(s, in) ==
  LET c == CallerBuffers(in)
      m == EvalStmt(s, c.env, c.m)
      out == Val(c.env.bufs[in.g.output])
  IN  [status |-> m.status,
       out |-> Map([x \in Range(PointsOf(OutputBox(in))) |-> ReadCell(m, out, x)]),
       log |-> m.log]

Init ==
  /\ phase = "graph"
  /\ prog = Nil
  /\ \E g \in Graphs : input = [g |-> g, omin |-> 0, n |-> 0, wide |-> TRUE]
  /\ aux = [solver |-> "unset", log |-> <<>>, slide |-> <<>>, folds |-> EmptyMap, alias |-> <<>>, ub |-> FALSE]
  /\ run = <<>>

Build ==
  /\ phase = "graph"
  /\ prog' = build(input.g, LoopSym)
  /\ phase' = "built"
  /\ UNCHANGED <<input, aux, run>>

Infer ==
  /\ phase = "built"
  /\ \E r \in {infer_bounds(prog, input.g.inputs)} :
       \E outcome \in Outcomes(r.ub) :
         /\ prog' = IF outcome = "continues" THEN r.s ELSE prog
         /\ aux' = [aux EXCEPT !.log = r.log, !.ub = @ \/ r.ub]
         /\ phase' = IF outcome = "continues" THEN "inferred" ELSE "stopped"
  /\ UNCHANGED <<input, run>>

SlideAndFoldStorage ==
  /\ phase = "inferred"
  /\ \E solver \in {"exact", "none"} :
       \E r \in {slide_and_fold_storage(prog, solver)} :
         \E outcome \in Outcomes(r.st.ub) :
           /\ prog' = IF outcome = "continues" THEN r.s ELSE prog
           /\ aux' = [aux EXCEPT !.solver = solver, !.slide = r.st.log, !.folds = r.st.fold_factors,
                                 !.ub = @ \/ r.st.ub]
           /\ phase' = IF outcome = "continues" THEN "slid" ELSE "stopped"
  /\ UNCHANGED <<input, run>>

RemoveInputCrops ==
  /\ phase = "slid"
  /\ prog' = remove_input_crops(prog)
  /\ phase' = "uncropped"
  /\ UNCHANGED <<input, aux, run>>

ReduceScopes ==
  /\ phase \in {"uncropped", "aliased"}
  /\ prog' = reduce_scopes(prog)
  /\ phase' = IF phase = "uncropped" THEN "reduced" ELSE "final"
  /\ UNCHANGED <<input, aux, run>>

Alias ==
  /\ phase = "reduced"
  /\ \E r \in {alias_buffers(prog)} :
       \E outcome \in Outcomes(r.st.ub) :
         /\ prog' = IF outcome = "continues" THEN r.s ELSE prog
         /\ aux' = [aux EXCEPT !.alias = r.st.log, !.ub = @ \/ r.st.ub]
         /\ phase' = IF outcome = "continues" THEN "aliased" ELSE "stopped"
  /\ UNCHANGED <<input, run>>

Evaluate ==
  /\ phase = "final"
  /\ \E omin \in 0..1, n \in 1..MaxN, wide \in BOOLEAN :
       /\ input.g.rank > 1 => n <= 2
       /\ input' = [input EXCEPT !.omin = omin, !.n = n, !.wide = wide]
       /\ run' = evaluate(prog, input')
  /\ phase' = "done"
  /\ UNCHANGED <<prog, aux>>

Next == Build \/ Infer \/ SlideAndFoldStorage \/ RemoveInputCrops \/ ReduceScopes \/ Alias \/ Evaluate

Spec == Init /\ [][Next]_vars

-----------------------------------------------------------------------------
(* Claims about the whole pipeline                                           *)

\* What the straight computation, stage by stage, leaves in the output.
Reference == Map([x \in Range(PointsOf(OutputBox(input))) |-> RefVal(input.g, input.g.output, x)])

Correct == run.status = "ok" /\ run.out = Reference

\* C1: for every pipeline whose funcs are all elementwise, evaluating the
\* statement the builder and the passes produce succeeds and leaves at every
\* coordinate of the output the value the stage-by-stage computation gives.
C1_ElementwiseMatchesReference ==
  (phase = "done" /\ IsElementwiseGraph(input.g)) => Correct

\* A pipeline of two elementwise funcs in a serial loop has run over the
\* whole output, its intermediate folded to one element.
C1_Witness ==
  /\ phase = "done"
  /\ IsElementwiseGraph(input.g)
  /\ Len(input.g.funcs) >= 2
  /\ input.g.loop = LoopOf(1, "serial")
  /\ input.n = MaxN
  /\ aux.folds[BufSym] = Some(<<1, Const(1)>>)
  /\ Len(run.log) = 2 * MaxN
  /\ Correct

\* The buffers slide_and_fold_storage slid, and those it recorded a constant
\* fold factor for.
SlidBuffers == {aux.slide[k].sym : k \in {j \in DOMAIN aux.slide : aux.slide[j].ev = "slide"}}

FoldedBuffers == {b \in Syms : IsSome(aux.folds[b]) /\ IsConst(Val(aux.folds[b])[2])}

FoldDim(b) == Val(aux.folds[b])[1]

FoldFactor(b) == ConstVal(Val(aux.folds[b])[2])

\* The coordinates call number k of the run wrote to b, and read of it.
WrittenAt(k, b) == IF run.log[k].out = b THEN run.log[k].w ELSE {}

ReadAt(k, b) == UNION {run.log[k].r[i] : i \in {j \in DOMAIN run.log[k].ins : run.log[k].ins[j] = b}}

\* The coordinates of b live when call number k runs: produced before and
\* read by this call or a later one, or written by this call.
LiveAt(k, b) ==
  WrittenAt(k, b) \cup
    {c \in UNION {WrittenAt(j, b) : j \in 1..(k - 1)} : \E j \in k..Len(run.log) : c \in ReadAt(j, b)}

\* C2: fold safety: whenever slide_and_fold_storage recorded the fold factor
\* F for dimension d of a buffer, any two coordinates of the buffer that are
\* live at a call of the run and congruent modulo F in dimension d are equal
\* in dimension d.
C2_FoldSafety ==
  phase = "done" =>
    \A b \in FoldedBuffers : \A k \in DOMAIN run.log :
      \A c1, c2 \in LiveAt(k, b) :
        c1[FoldDim(b)] % FoldFactor(b) = c2[FoldDim(b)] % FoldFactor(b) => c1[FoldDim(b)] = c2[FoldDim(b)]

\* Every coordinate call number k reads of b was written to b by an earlier
\* call, in the same iteration of the loop or an earlier one.
ReadsWereProduced(k, b) ==
  \A c \in ReadAt(k, b) :
    \E j \in 1..(k - 1) : c \in WrittenAt(j, b) /\ run.log[j].iter <= run.log[k].iter

\* C9: after a producer was slid inside a serial loop, every element of it a
\* consumer reads in an iteration was produced in that iteration or an
\* earlier one (with the loop min moved back, or with the select on the first
\* iteration), and the output is that of the straight computation.
C9_SlidReadsWereProduced ==
  (phase = "done" /\ SlidBuffers # {}) =>
    /\ \A b \in SlidBuffers \ Range(input.g.inputs) : \A k \in DOMAIN run.log : ReadsWereProduced(k, b)
    /\ Correct

\* A stencil read an intermediate that was slid with the loop min moved
\* back, over several iterations.
C9_Witness ==
  /\ phase = "done"
  /\ aux.solver = "exact"
  /\ BufSym \in SlidBuffers
  /\ input.n = MaxN
  /\ \E k \in DOMAIN run.log : Cardinality(ReadAt(k, BufSym)) >= 3
  /\ \E k \in DOMAIN run.log : WrittenAt(k, BufSym) # {} /\ WrittenAt(k, OutSym) = {} /\ run.log[k].iter < run.log[Len(run.log)].iter - MaxN + 1
  /\ Correct

\* C10: after sliding, the regions the producer of a slid buffer computes in
\* different iterations are pairwise disjoint in the slid dimension: no
\* coordinate is computed twice.
C10_SlidRegionsDisjoint ==
  phase = "done" =>
    \A k \in DOMAIN aux.slide : aux.slide[k].ev = "slide" =>
      \A i, j \in DOMAIN run.log :
        i # j => {c[aux.slide[k].dim] : c \in WrittenAt(i, aux.slide[k].sym)}
                   \cap {c[aux.slide[k].dim] : c \in WrittenAt(j, aux.slide[k].sym)} = {}

\* A slid producer ran in several iterations, computing something in each.
C10_Witness ==
  /\ phase = "done"
  /\ BufSym \in SlidBuffers
  /\ Cardinality({k \in DOMAIN run.log : WrittenAt(k, BufSym) # {}}) >= 3
  /\ \E k \in DOMAIN run.log : Cardinality(WrittenAt(k, BufSym)) >= 2

-----------------------------------------------------------------------------
(* Claims about parallel loops                                               *)

RECURSIVE LoopHeaders(_)

\* The loops of a statement in order: <<sym, mode, bounds, step>> of each.
LoopHeaders(s) ==
  CASE Tag(s) = "block" -> LoopHeaders(s[2]) \o LoopHeaders(s[3])
    [] Tag(s) = "loop" -> << <<s[2], s[3], s[4], s[5]>> >> \o LoopHeaders(s[6])
    [] HasBody(s) -> LoopHeaders(BodyOf(s))
    [] OTHER -> <<>>

ParallelGraph == IsSome(input.g.loop) /\ Val(input.g.loop).mode = "parallel"

\* The loop the builder made for the graph at hand.
BuiltLoop ==
  <<LoopSym, Val(input.g.loop).mode,
    <<buffer_min(input.g.output, input.g.rank), buffer_max(input.g.output, input.g.rank)>>,
    Const(Val(input.g.loop).step)>>

\* slide_and_fold_storage left the parallel loop as it was: same bounds and
\* step, nothing slid, no fold factor recorded.
ParallelLoopLeftAlone ==
  (phase = "slid" /\ ParallelGraph) =>
    /\ LoopHeaders(prog) = <<BuiltLoop>>
    /\ aux.slide = <<>>
    /\ \A b \in Syms : ~IsSome(aux.folds[b])

\* No two calls of different iterations of the loop wrote the same
\* coordinate of a buffer, and none read a coordinate another iteration wrote.
IterationsShareNoStorage ==
  \A i, j \in DOMAIN run.log :
    run.log[i].iter # run.log[j].iter =>
      \A b \in Syms : WrittenAt(i, b) \cap (WrittenAt(j, b) \cup ReadAt(j, b)) = {}

-----------------------------------------------------------------------------
(* Claims about allocations whose bounds cannot be inferred                 *)

RECURSIVE UnresolvedAllocations(_)

\* The allocations of a statement whose bounds still mention the metadata of
\* the buffer they allocate.
UnresolvedAllocations(s) ==
  CASE Tag(s) = "block" -> UnresolvedAllocations(s[2]) \cup UnresolvedAllocations(s[3])
    [] Tag(s) = "allocate" ->
         (IF s[2] \in SymsOfBox(Tuple([d \in DOMAIN s[4] |-> s[4][d][1]])) THEN {s[2]} ELSE {})
         \cup UnresolvedAllocations(s[5])
    [] HasBody(s) -> UnresolvedAllocations(BodyOf(s))
    [] OTHER -> {}

\* The allocations bounds inference reached with nothing inferred: no reader
\* recorded a region, or the reader recorded the absence of a crop.
UnboundedAllocations ==
  {aux.log[k].sym : k \in {j \in DOMAIN aux.log :
      aux.log[j].ev = "allocate" /\ (aux.log[j].ub \/ aux.log[j].bounds = <<>>)}}

\* The allocations whose inferred bounds are stated in their own metadata.
SelfBoundedAllocations ==
  {aux.log[k].sym : k \in {j \in DOMAIN aux.log :
      aux.log[j].ev = "allocate" /\ aux.log[j].sym \in SymsOfBox(aux.log[j].bounds)}}

Failed(e) == phase = "failed" /\ aux.error = e

\* C12: when the bounds inferred for an allocation are still undefined at its
\* Allocate node, bounds inference fails with UnboundedAllocation and returns
\* no Allocate whose dims still hold the buffer_min / buffer_max placeholders
\* of the allocated buffer.
C12_UnboundedAllocationFails ==
  (phase # "built" /\ UnboundedAllocations # {}) =>
    /\ Failed("UnboundedAllocation")
    /\ phase = "inferred" => UnboundedAllocations \cap UnresolvedAllocations(prog) = {}

\* C13: when the bounds inferred for an allocation depend on its own metadata,
\* directly or through another allocation, bounds inference stops and fails
\* with UnresolvedBounds.
C13_UnresolvedBoundsFails ==
  (phase # "built" /\ SelfBoundedAllocations # {}) =>
    /\ phase # "looping"
    /\ Failed("UnresolvedBounds")

-----------------------------------------------------------------------------
(* Claims about the checks on the formal inputs                             *)

RECURSIVE Leaves(_)

\* The statements that are neither blocks nor scopes, in execution order.
Leaves(s) ==
  CASE Tag(s) = "block" -> Leaves(s[2]) \o Leaves(s[3])
    [] HasBody(s) -> Leaves(BodyOf(s))
    [] Tag(s) = "nil" -> <<>>
    [] OTHER -> <<s>>

IsCheck(s) == Tag(s) = "check"

IsCallOrCopy(s) == Tag(s) \in {"call", "copy"}

ChecksFirst(s) ==
  \A i, j \in DOMAIN Leaves(s) : (IsCheck(Leaves(s)[i]) /\ IsCallOrCopy(Leaves(s)[j])) => i < j

Lowered == phase \in {"inferred", "slid", "uncropped", "reduced", "aliased", "final", "done"}

\* C14: in what infer_bounds returns, the checks on the formal inputs come
\* before the body of the pipeline in execution order: no call or copy runs
\* before all the checks have been evaluated.
C14_ChecksBeforeBody ==
  /\ Lowered => ChecksFirst(prog)
  /\ (phase = "done" /\ run.status = "check") => run.log = <<>>

\* The lowered statement of a pipeline with two inputs in two dimensions has
\* all its checks and several calls.
C14_Witness ==
  /\ phase = "final"
  /\ Cardinality({i \in DOMAIN Leaves(prog) : IsCheck(Leaves(prog)[i])}) = 3 * input.g.rank * Len(input.g.inputs)
  /\ Len(input.g.inputs) >= 2
  /\ Cardinality({i \in DOMAIN Leaves(prog) : IsCallOrCopy(Leaves(prog)[i])}) >= 2

\* The checks on the fold factor of an input, and the others (min and max).
IsFoldFactor(e) == IsAtomE(e) /\ TheAtom(e)[1] = "bmeta" /\ TheAtom(e)[2] = "fold"

IsFoldCheck(s) == IsCheck(s) /\ (IsFoldFactor(s[2]) \/ IsFoldFactor(s[3]))

CallerEnv == CallerBuffers(input).env

Holds(s) == ExprBound(s[2], CallerEnv) /\ ExprBound(s[3], CallerEnv) /\ EvalE(s[2], CallerEnv) <= EvalE(s[3], CallerEnv)

InputsContainRequired == \A i \in DOMAIN Leaves(prog) : (IsCheck(Leaves(prog)[i]) /\ ~IsFoldCheck(Leaves(prog)[i])) => Holds(Leaves(prog)[i])

-----------------------------------------------------------------------------
(* node_context: the names of the symbols.  The context is kept in aux as    *)
(* [name_to_id, id_to_name]; the symbol i is at position i + 1 of           *)
(* id_to_name, and name_to_id maps the names it does not hold to NoId.       *)

\* The largest number of symbols a context gets.
MaxNames == 4

\* What lookup returns for a name the context does not hold.
NoId == -1

\* "t" + std::to_string(id)
TempName(id) == "t" \o ToString(id)

UserNames == {"x", "y", "t0", "t1", "t2"}

AllNames == UserNames \cup {TempName(i) : i \in 0..MaxNames}

\* node_context::name(i)
name(ctx, i) == IF i < Len(ctx.id_to_name) THEN ctx.id_to_name[i + 1] ELSE "<" \o ToString(i) \o ">"

\* node_context::lookup(name)
lookup(ctx, n) == ctx.name_to_id[n]

\* node_context::insert(name): the id returned.
InsertedId(ctx, n) == IF ctx.name_to_id[n] = NoId THEN Len(ctx.id_to_name) ELSE ctx.name_to_id[n]

\* A faulty insert(name): the name is not looked for and always gets a new id.
InsertWithoutFind(ctx, n) ==
  [id_to_name |-> Append(ctx.id_to_name, n),
   name_to_id |-> [ctx.name_to_id EXCEPT ![n] = Len(ctx.id_to_name)]]

\* node_context::insert(name): the context afterwards.
insert(ctx, n) ==
  IF ctx.name_to_id[n] = NoId
    THEN [id_to_name |-> Append(ctx.id_to_name, n),
          name_to_id |-> [ctx.name_to_id EXCEPT ![n] = Len(ctx.id_to_name)]]
    ELSE ctx

\* node_context::insert(): the context afterwards.
insert_temp(ctx) ==
  [id_to_name |-> Append(ctx.id_to_name, TempName(Len(ctx.id_to_name))),
   name_to_id |-> [ctx.name_to_id EXCEPT ![TempName(Len(ctx.id_to_name))] = Len(ctx.id_to_name)]]

InitNames ==
  /\ phase = "names"
  /\ prog = Nil
  /\ input = [call |-> "none", name |-> "", id |-> NoId, before |-> <<>>]
  /\ aux = [id_to_name |-> <<>>, name_to_id |-> [n \in AllNames |-> NoId]]
  /\ run = <<>>

\* A call of insert(name); input keeps the last call, its result and the
\* context it was made in.
InsertName ==
  /\ phase = "names"
  /\ Len(aux.id_to_name) < MaxNames
  /\ \E n \in UserNames :
       /\ aux' = insert(aux, n)
       /\ input' = [call |-> "insert(name)", name |-> n, id |-> InsertedId(aux, n), before |-> aux]
  /\ UNCHANGED <<phase, prog, run>>

\* A call of insert().
InsertTemp ==
  /\ phase = "names"
  /\ Len(aux.id_to_name) < MaxNames
  /\ aux' = insert_temp(aux)
  /\ input' = [call |-> "insert()", name |-> TempName(Len(aux.id_to_name)), id |-> Len(aux.id_to_name),
                before |-> aux]
  /\ UNCHANGED <<phase, prog, run>>

NextNames == InsertName \/ InsertTemp

SpecNames == InitNames /\ [][NextNames]_vars

\* C16: after any sequence of insert(name) and insert() calls the names and
\* the ids of a node_context are one-to-one: lookup(name(i)) = i for every id
\* i handed out and no two ids have the same name, also when a name chosen by
\* the user has the form "t<number>" of the names insert() makes.
C16_NamesOneToOne ==
  phase = "names" =>
    /\ \A i \in 0..(Len(aux.id_to_name) - 1) : lookup(aux, name(aux, i)) = i
    /\ \A i, j \in 0..(Len(aux.id_to_name) - 1) : i # j => name(aux, i) # name(aux, j)

\* C25: insert(name) of a name that is present returns the id the name has
\* and leaves the context as it was; insert(name) of a new name returns the
\* number of ids handed out before and gives the name that id, so the ids
\* handed out are 0, 1, ..., N - 1.
C25_InsertReturnsExistingOrNext ==
  (phase = "names" /\ input.call = "insert(name)") =>
    IF lookup(input.before, input.name) # NoId
      THEN input.id = lookup(input.before, input.name) /\ aux = input.before
      ELSE /\ input.id = Len(input.before.id_to_name)
           /\ aux.id_to_name = Append(input.before.id_to_name, input.name)
           /\ lookup(aux, input.name) = input.id
           /\ \A n \in AllNames \ {input.name} : lookup(aux, n) = lookup(input.before, n)
           /\ DOMAIN aux.id_to_name = 1..(input.id + 1)

\* A name that was present has been inserted again after another name was
\* inserted behind it.
C25_Witness ==
  /\ phase = "names"
  /\ input.call = "insert(name)"
  /\ lookup(input.before, input.name) = 0
  /\ Len(aux.id_to_name) >= 2
  /\ input.id = 0

-----------------------------------------------------------------------------
(* interval and box: operator& on intervals with constant bounds            *)

\* box operator&(box a, const box& b)
BoxAnd(a, b) == Tuple([i \in DOMAIN a |-> IntervalAnd(a[i], b[i])])

Intervals == {ConstInterval(lo, hi) : lo \in 0..MaxCoord, hi \in 0..MaxCoord}

InitInterval ==
  /\ phase = "interval"
  /\ prog = Nil
  /\ \E a \in Intervals, b \in Intervals : input = [a |-> a, b |-> b]
  /\ aux = <<>>
  /\ run = <<>>

\* a & b
AndIntervals ==
  /\ phase = "interval"
  /\ run' = IntervalAnd(input.a, input.b)
  /\ phase' = "and"
  /\ UNCHANGED <<prog, input, aux>>

\* box & box, the boxes being those of the one dimension a and b.
AndBoxes ==
  /\ phase = "interval"
  /\ run' = BoxAnd(<<input.a>>, <<input.b>>)
  /\ phase' = "box_and"
  /\ UNCHANGED <<prog, input, aux>>

\* The scales tried: every nonzero one up to MaxScale, of both signs.
Scales == ((0 - MaxScale)..MaxScale) \ {0}

\* The quotient of two index_t, b # 0, rounded down or towards zero (the
\* evaluation of a division is not part of this code).
Quotient(a, b, rounding) ==
  LET abs_a == IF a < 0 THEN 0 - a ELSE a
      abs_b == IF b < 0 THEN 0 - b ELSE b
  IN  IF rounding = "down"
        THEN (IF b < 0 THEN FloorDiv(0 - a, abs_b) ELSE FloorDiv(a, abs_b))
        ELSE (IF (a < 0) = (b < 0) THEN FloorDiv(abs_a, abs_b) ELSE 0 - FloorDiv(abs_a, abs_b))

\* interval::operator*=
IntervalMul(l, scale) == <<MulE(l[1], scale), MulE(l[2], scale)>>

\* interval::operator/= on constant bounds.
IntervalDiv(l, scale, rounding) ==
  <<Const(Quotient(ConstVal(l[1]), ConstVal(scale), rounding)),
    Const(Quotient(ConstVal(l[2]), ConstVal(scale), rounding))>>

\* a * scale
MulInterval ==
  /\ phase = "interval"
  /\ \E scale \in Scales :
       /\ run' = IntervalMul(input.a, Const(scale))
       /\ aux' = [scale |-> scale, rounding |-> "none"]
  /\ phase' = "mul"
  /\ UNCHANGED <<prog, input>>

\* a / scale
DivInterval ==
  /\ phase = "interval"
  /\ \E scale \in Scales, rounding \in {"down", "to_zero"} :
       /\ run' = IntervalDiv(input.a, Const(scale), rounding)
       /\ aux' = [scale |-> scale, rounding |-> rounding]
  /\ phase' = "div"
  /\ UNCHANGED <<prog, input>>

NextInterval == AndIntervals \/ AndBoxes \/ MulInterval \/ DivInterval

SpecInterval == InitInterval /\ [][NextInterval]_vars

\* The intersection of two intervals with constant bounds.
Intersection(a, b) == ConstInterval(Max2(ConstVal(a[1]), ConstVal(b[1])), Min2(ConstVal(a[2]), ConstVal(b[2])))

\* C17: interval::operator& and operator&= (and box & box, dimension by
\* dimension) return the intersection [max(a.min, b.min), min(a.max, b.max)].
C17_AndIsIntersection ==
  /\ phase = "and" => run = Intersection(input.a, input.b)
  /\ phase = "box_and" => run = <<Intersection(input.a, input.b)>>

\* The points of an interval with constant bounds.
Points(a) == ConstVal(a[1])..ConstVal(a[2])

\* C30: for an interval with min <= max, operator* and operator/ (and *=, /=)
\* by a nonzero scale, a negative one included, return an interval with
\* min <= max that contains the image of every point of the interval.
C30_ScaledIntervalOrdered ==
  (phase \in {"mul", "div"} /\ ConstVal(input.a[1]) <= ConstVal(input.a[2])) =>
    /\ ConstVal(run[1]) <= ConstVal(run[2])
    /\ \A p \in Points(input.a) :
         (IF phase = "mul" THEN p * aux.scale ELSE Quotient(p, aux.scale, aux.rounding)) \in Points(run)

-----------------------------------------------------------------------------
(* Input crop removal and scope reduction on their own: one scope of buf    *)
(* around a body of up to MaxBody statements.                               *)

\* The largest number of statements the body of the scope has.
MaxBody == 3

\* The kinds of statement the body is made of.
BodyStmts ==
  { CallMake(1, <<InSym>>, <<OutSym>>),
    CallMake(2, <<BufSym>>, <<OutSym>>),
    CopyMake(InSym, BufSym),
    CropDimMake(BufSym, 1, ConstInterval(0, 0), CallMake(4, <<InSym>>, <<BufSym>>)),
    CropDimMake(BufSym, 1, ConstInterval(0, 0), CallMake(5, <<BufSym>>, <<Out2Sym>>)),
    CropBufferMake(Buf2Sym, <<ConstInterval(0, 1)>>,
      BlockMake(CallMake(6, <<InSym>>, <<Out2Sym>>), CallMake(7, <<BufSym>>, <<OutSym>>))),
    AllocateMake(Buf2Sym, ElemSize, <<<<ConstInterval(0, 1), Const(ElemSize), Undef>>>>,
      BlockOf(<< CallMake(8, <<InSym>>, <<Buf2Sym>>), CallMake(9, <<InSym>>, <<Out2Sym>>),
                 CallMake(10, <<Buf2Sym, BufSym>>, <<OutSym>>) >>)) }

ScopeKinds == {"allocate", "let", "crop_buffer", "crop_dim"}

ScopeOf(kind, body) ==
  CASE kind = "allocate" -> AllocateMake(BufSym, ElemSize, <<<<ConstInterval(0, 1), Const(ElemSize), Undef>>>>, body)
    [] kind = "let" -> LetMake(BufSym, Const(0), body)
    [] kind = "crop_buffer" -> CropBufferMake(BufSym, <<ConstInterval(0, 1)>>, body)
    [] kind = "crop_dim" -> CropDimMake(BufSym, 1, ConstInterval(0, 1), body)

ScopeInputs ==
  {ScopeOf(kind, BlockOf(ss)) : kind \in ScopeKinds, ss \in UNION {[1..n -> BodyStmts] : n \in 0..MaxBody}}

InitScopes ==
  /\ phase = "given"
  /\ prog \in ScopeInputs
  /\ input = prog
  /\ aux = <<>>
  /\ run = <<>>

\* input_crop_remover().mutate(s)
RemoveCrops ==
  /\ phase = "given"
  /\ prog' = remove_input_crops(prog)
  /\ phase' = "uncropped"
  /\ UNCHANGED <<input, aux, run>>

\* reduce_scopes(s); aux keeps what split_body made of the body of the scope.
Reduce ==
  /\ phase = "given"
  /\ prog' = reduce_scopes(prog)
  /\ aux' = split_body(ScopeReducer(BodyOf(prog)), prog[2])
  /\ phase' = "reduced"
  /\ UNCHANGED <<input, run>>

NextScopes == RemoveCrops \/ Reduce

SpecScopes == InitScopes /\ [][NextScopes]_vars

DependOn(ss, sym) == {k \in DOMAIN ss : DependsOnStmt(ss[k], sym)}

\* C18: reduce_scopes splits the body of a scope of sym into (before,
\* new_body, after) such that no statement of before or after depends on sym
\* and new_body is minimal: its first and its last statement depend on sym.
C18_SplitBodyMinimal ==
  phase = "reduced" =>
    /\ for_each_stmt_forward(aux.before) \o for_each_stmt_forward(aux.new_body) \o for_each_stmt_forward(aux.after)
         = for_each_stmt_forward(ScopeReducer(BodyOf(input)))
    /\ DependOn(for_each_stmt_forward(aux.before), input[2]) = {}
    /\ DependOn(for_each_stmt_forward(aux.after), input[2]) = {}
    /\ aux.new_body # Nil =>
         {1, Len(for_each_stmt_forward(aux.new_body))} \subseteq DependOn(for_each_stmt_forward(aux.new_body), input[2])

\* A body was split into three parts none of which is empty.
C18_Witness ==
  /\ phase = "reduced"
  /\ aux.before # Nil
  /\ aux.new_body # Nil
  /\ aux.after # Nil
  /\ prog = BlockMake(aux.before, BlockMake(WithBody(input, aux.new_body), aux.after))

RECURSIVE WrittenIn(_)

\* The buffers some call of s has among its outputs or some copy of s has as
\* its destination.
WrittenIn(s) ==
  CASE Tag(s) = "block" -> WrittenIn(s[2]) \cup WrittenIn(s[3])
    [] Tag(s) = "call" -> Range(s[4])
    [] Tag(s) = "copy" -> {s[3]}
    [] HasBody(s) -> WrittenIn(BodyOf(s))
    [] OTHER -> {}

RECURSIVE WithoutInputCrops(_)

\* s without the crops of buffers that nothing below the crop writes.
WithoutInputCrops(s) ==
  CASE Tag(s) = "block" -> BlockMake(WithoutInputCrops(s[2]), WithoutInputCrops(s[3]))
    [] Tag(s) \in {"crop_buffer", "crop_dim"} ->
         IF s[2] \in WrittenIn(BodyOf(s)) THEN WithBody(s, WithoutInputCrops(BodyOf(s)))
         ELSE WithoutInputCrops(BodyOf(s))
    [] HasBody(s) -> WithBody(s, WithoutInputCrops(BodyOf(s)))
    [] OTHER -> s

\* C19: input_crop_remover removes a crop_buffer or crop_dim of sym exactly
\* when no call in its body has sym among its outputs and no copy has sym as
\* its destination; a write below an inner crop of the same sym keeps every
\* crop around it as well.
C19_CropRemovedIffNotWritten ==
  phase = "uncropped" => prog = WithoutInputCrops(input)

\* Of two inner crops of buf the one that is only read below is removed and
\* the one that is written below is kept, together with the crop around both.
C19_Witness ==
  /\ phase = "uncropped"
  /\ input = CropBufferMake(BufSym, <<ConstInterval(0, 1)>>,
               BlockMake(CropDimMake(BufSym, 1, ConstInterval(0, 0), CallMake(5, <<BufSym>>, <<Out2Sym>>)),
                         CropDimMake(BufSym, 1, ConstInterval(0, 0), CallMake(4, <<InSym>>, <<BufSym>>))))
  /\ prog = CropBufferMake(BufSym, <<ConstInterval(0, 1)>>,
              BlockMake(CallMake(5, <<BufSym>>, <<Out2Sym>>),
                        CropDimMake(BufSym, 1, ConstInterval(0, 0), CallMake(4, <<InSym>>, <<BufSym>>))))

RECURSIVE UsedBy(_)

\* The symbols s depends on, a scope nothing below depends on counting for
\* what is below it only.
UsedBy(s) ==
  CASE Tag(s) = "block" -> UsedBy(s[2]) \cup UsedBy(s[3])
    [] Tag(s) = "loop" -> FreeSyms(WithBody(s, Nil)) \cup (UsedBy(BodyOf(s)) \ {s[2]})
    [] Tag(s) \in {"allocate", "let"} ->
         IF s[2] \in UsedBy(BodyOf(s)) THEN FreeSyms(WithBody(s, Nil)) \cup (UsedBy(BodyOf(s)) \ {s[2]})
         ELSE UsedBy(BodyOf(s))
    [] Tag(s) \in {"crop_buffer", "crop_dim"} ->
         IF s[2] \in UsedBy(BodyOf(s)) THEN FreeSyms(WithBody(s, Nil)) \cup UsedBy(BodyOf(s))
         ELSE UsedBy(BodyOf(s))
    [] OTHER -> FreeSyms(s)

IsScope(s) == Tag(s) \in {"allocate", "let", "crop_buffer", "crop_dim"}

RECURSIVE Scopes(_, _)

\* The scopes of s without their bodies, from the outermost and leftmost one;
\* all of them, or only those something below depends on.
Scopes(s, all) ==
  CASE Tag(s) = "block" -> Scopes(s[2], all) \o Scopes(s[3], all)
    [] IsScope(s) ->
         (IF all \/ s[2] \in UsedBy(BodyOf(s)) THEN <<WithBody(s, Nil)>> ELSE <<>>) \o Scopes(BodyOf(s), all)
    [] HasBody(s) -> Scopes(BodyOf(s), all)
    [] OTHER -> <<>>

Count(q, x) == Cardinality({k \in DOMAIN q : q[k] = x})

\* Every element of p is in q at least as many times.
SubBag(p, q) == \A x \in Range(p) : Count(p, x) <= Count(q, x)

\* C20: reduce_scopes keeps the execution order: the calls, copies and checks
\* of the result are those of the statement given, in the same order, none
\* dropped, duplicated or moved; the only scopes removed are those nothing
\* in their body depends on, and their bodies are kept.
C20_ReduceScopesKeepsOrder ==
  phase = "reduced" =>
    /\ Leaves(prog) = Leaves(input)
    /\ SubBag(Scopes(prog, TRUE), Scopes(input, TRUE))
    /\ SubBag(Scopes(input, FALSE), Scopes(prog, TRUE))

\* A dead scope inside the body was removed and statements were moved out
\* of the scope on both sides.
C20_Witness ==
  /\ phase = "reduced"
  /\ Len(Leaves(input)) >= 4
  /\ Len(Scopes(prog, TRUE)) < Len(Scopes(input, TRUE))
  /\ Len(Scopes(prog, TRUE)) >= 1
  /\ aux.before # Nil
  /\ aux.after # Nil

-----------------------------------------------------------------------------
(* The dims of an allocation on their own: the strides bounds inference     *)
(* substitutes for inferred bounds of two dimensions, and the fold factor   *)
(* slide_and_fold_storage puts in afterwards.                               *)

\* The largest extent of a dimension and the largest fold factor.
MaxExtent == 3

MaxFold == 3

StrideBoxes ==
  {<<ConstInterval(m1, m1 + e1 - 1), ConstInterval(m2, m2 + e2 - 1)>> :
     m1 \in 0..1, m2 \in 0..1, e1 \in 1..MaxExtent, e2 \in 1..MaxExtent}

FoldInfos == {None} \cup {Some(<<d, Const(f)>>) : d \in 1..2, f \in 1..MaxFold}

InitStride ==
  /\ phase = "bounds"
  /\ prog = PlaceholderDims(BufSym, 2)
  /\ \E box \in StrideBoxes, fold \in FoldInfos : input = [box |-> box, fold |-> fold]
  /\ aux = <<>>
  /\ run = <<>>

\* visit(const allocate*) of the bounds inferrer on the dims, then that of
\* slide_and_fold_storage; run is the dims the allocation has when it is made.
AllocateDims ==
  /\ phase = "bounds"
  /\ prog' = FoldedDims(BufSym,
               recursive_substitute(prog, AllocSubstitutions(BufSym, input.box, 1, Const(ElemSize))).dims,
               input.fold)
  /\ run' = AllocDims(prog', NoEnv)
  /\ phase' = "allocated"
  /\ UNCHANGED <<input, aux>>

NextStride == AllocateDims

SpecStride == InitStride /\ [][NextStride]_vars

\* (c - min) mod_fold fold_factor, dimension by dimension.
StorageIndex(dims, c) == Tuple([d \in DOMAIN dims |-> (c[d] - dims[d].min) % dims[d].fold])

\* The address of coordinate c from the base of the buffer.
Address(dims, c) == StorageIndex(dims, c)[1] * dims[1].stride + StorageIndex(dims, c)[2] * dims[2].stride

InferredPoints == Range(PointsOf(Tuple([d \in 1..2 |-> <<ConstVal(input.box[d][1]), ConstVal(input.box[d][2])>>])))

Distance(a, b) == IF a >= b THEN a - b ELSE b - a

\* C21: the strides substituted into an Allocate are stride_0 = elem_size and
\* stride_{d+1} = stride_d * min(extent_d, fold_factor_d), so two coordinates
\* inside the inferred bounds whose storage indices differ in some dimension
\* have different element addresses that do not overlap.
C21_StridesSeparateElements ==
  phase = "allocated" =>
    /\ run[1].stride = ElemSize
    /\ run[2].stride = run[1].stride * Min2(run[1].max - run[1].min + 1, run[1].fold)
    /\ \A c1, c2 \in InferredPoints :
         StorageIndex(run, c1) # StorageIndex(run, c2) => Distance(Address(run, c1), Address(run, c2)) >= ElemSize

\* Bounds of several coordinates in both dimensions, the first one folded to
\* fewer elements than its extent.
C21_Witness ==
  /\ phase = "allocated"
  /\ run[1].max - run[1].min + 1 = MaxExtent
  /\ run[2].max > run[2].min
  /\ run[1].fold = 2
  /\ run[2].stride = 2 * ElemSize

-----------------------------------------------------------------------------
(* Claims about the fold factors slide_and_fold_storage records             *)

\* The slide events whose buffer has a fold factor recorded for the
\* dimension slid.
SlidAndFolded ==
  {k \in DOMAIN aux.slide :
     /\ aux.slide[k].ev = "slide"
     /\ IsSome(aux.folds[aux.slide[k].sym])
     /\ Val(aux.folds[aux.slide[k].sym])[1] = aux.slide[k].dim}

\* The caller's buffers with the loop variable at x.
IterationEnv(x) == [CallerEnv EXCEPT !.vars[LoopSym] = Some(x)]

LoopStep == Val(input.g.loop).step

\* The values the loop variable takes in the loop as built.
LoopValues == {x \in input.omin..(input.omin + input.n - 1) : (x - input.omin) % LoopStep = 0}

RecordedFold(k) == EvalE(Val(aux.folds[aux.slide[k].sym])[2], CallerEnv)

\* C22: in the sliding case with a fold factor that does not depend on the
\* loop variable, the fold factor recorded is the largest extent required in
\* one iteration rounded up to a multiple of the loop step: it is positive, a
\* multiple of the step and at least the extent required in any iteration.
C22_SlidFoldFactorCoversExtent ==
  phase = "done" =>
    \A k \in SlidAndFolded :
      /\ ExprBound(Val(aux.folds[aux.slide[k].sym])[2], CallerEnv)
      /\ RecordedFold(k) > 0
      /\ RecordedFold(k) % LoopStep = 0
      /\ \A x \in LoopValues :
           /\ BoxBound(<<aux.slide[k].cur>>, IterationEnv(x))
           /\ EvalE(Extent(aux.slide[k].cur), IterationEnv(x)) <= RecordedFold(k)

\* A stencil of three coordinates slid over a loop of step 2: the fold factor
\* is 4.
C22_Witness ==
  /\ phase = "done"
  /\ input.n = MaxN
  /\ IsSome(input.g.loop)
  /\ \E k \in SlidAndFolded :
       /\ LoopStep = 2
       /\ RecordedFold(k) = 4
       /\ \E x \in LoopValues : EvalE(Extent(aux.slide[k].cur), IterationEnv(x)) = 3

-----------------------------------------------------------------------------
(* Claims about the allocate slide_and_fold_storage rewrites                *)

RECURSIVE AtomsIn(_), AtomsUnder(_)

\* Every atom of an expression, those inside its operands included.
AtomsIn(e) == IF Defined(e) THEN UNION {{a} \cup AtomsUnder(a) : a \in AtomsOf(e)} ELSE {}

AtomsUnder(a) ==
  CASE a[1] \in {"min", "max"} -> UNION {AtomsIn(x) : x \in a[2]}
    [] a[1] \in {"mul", "align_up", "div"} -> AtomsIn(a[2]) \cup AtomsIn(a[3])
    [] a[1] = "abs" -> AtomsIn(a[2])
    [] a[1] = "select" -> AtomsIn(a[2][1]) \cup AtomsIn(a[2][2]) \cup AtomsIn(a[3]) \cup AtomsIn(a[4])
    [] OTHER -> {}

\* The four expressions of a dim, by name.
FieldsOf(dim) == [min |-> dim[1][1], max |-> dim[1][2], stride |-> dim[2], fold_factor |-> dim[3]]

FieldNames == {"min", "max", "stride", "fold_factor"}

\* The dims of the allocation as bounds_inferrer leaves them, which is what
\* slide_and_fold_storage rewrites.
InferredDims ==
  recursive_substitute(PlaceholderDims(BufSym, 2),
                       AllocSubstitutions(BufSym, input.box, 1, Const(ElemSize))).dims

\* The dimensions whose buffer_fold_factor is replaced by positive_infinity.
InfiniteFolds == {d \in 1..2 : ~(IsSome(input.fold) /\ Val(input.fold)[1] = d)}

\* The places where the substitution puts a positive_infinity: the fields that
\* mention the buffer_fold_factor of a dimension without a recorded factor.
InfinityPutIn ==
  {<<d, f>> \in (1..2) \X FieldNames :
     \E d2 \in InfiniteFolds : <<"bmeta", "fold", BufSym, d2>> \in AtomsIn(FieldsOf(InferredDims[d])[f])}

\* The places where it stays: everywhere but in a fold_factor that is the
\* infinity itself, which is made undefined.
InfinityLeftIn ==
  {p \in InfinityPutIn :
     ~(p[2] = "fold_factor" /\ \E d2 \in InfiniteFolds : InferredDims[p[1]][3] = buffer_fold_factor(BufSym, d2))}

\* Each fold_factor is the recorded one or undefined.
FoldFactorRecordedOrUndefined ==
  \A d \in DOMAIN prog :
    prog[d][3] = IF IsSome(input.fold) /\ Val(input.fold)[1] = d THEN Val(input.fold)[2] ELSE Undef

\* No buffer_fold_factor of the allocated symbol is left in the dims.
NoFoldFactorCallLeft ==
  \A d \in DOMAIN prog : \A f \in FieldNames : \A a \in AtomsIn(FieldsOf(prog[d])[f]) :
    ~(a[1] = "bmeta" /\ a[2] = "fold" /\ a[3] = BufSym)

-----------------------------------------------------------------------------
(* Claims about the loop variable after bounds_inferrer has left the loop   *)

\* Some interval of the box mentions sym.
DependsOnBox(box, sym) == \E d \in DOMAIN box : DependsOnInterval(box[d], sym)

RECURSIVE LoopUnder(_), CropsAroundLoops(_)

\* The variable of the loop a chain of crop_buffer nodes is wrapped around.
LoopUnder(s) ==
  CASE Tag(s) = "crop_buffer" -> LoopUnder(s[4])
    [] Tag(s) = "loop" -> Some(s[2])
    [] OTHER -> None

\* The crop_buffer nodes around loops: the loop variable with the bounds of
\* the crop.
CropsAroundLoops(s) ==
  CASE Tag(s) = "block" -> CropsAroundLoops(s[2]) \cup CropsAroundLoops(s[3])
    [] Tag(s) = "crop_buffer" ->
         (IF IsSome(LoopUnder(s[4])) THEN {<<Val(LoopUnder(s[4])), s[3]>>} ELSE {}) \cup CropsAroundLoops(s[4])
    [] Tag(s) = "crop_dim" -> CropsAroundLoops(s[5])
    [] Tag(s) = "allocate" -> CropsAroundLoops(s[5])
    [] Tag(s) = "let" -> CropsAroundLoops(s[4])
    [] Tag(s) = "loop" -> CropsAroundLoops(s[6])
    [] OTHER -> {}

\* C24: when bounds_inferrer has visited a loop, no interval of an in-flight
\* buffer mentions the loop variable, and neither do the bounds of the
\* crop_buffer nodes it wraps around the loop.
C24_LoopVariableLeavesBounds ==
  /\ \A k \in LogEvents("loop") : ~DependsOnBox(aux.log[k].after, aux.log[k].var)
  /\ phase = "inferred" => \A c \in CropsAroundLoops(prog) : ~DependsOnBox(c[2], c[1])

\* A loop has been left whose variable the bounds of an in-flight buffer
\* mentioned, and crop_buffer nodes are around it.
C24_Witness ==
  /\ phase = "inferred"
  /\ CropsAroundLoops(prog) # {}
  /\ \E k \in LogEvents("loop") : DependsOnBox(aux.log[k].before, aux.log[k].var)

-----------------------------------------------------------------------------
(* recursive_substitute, one round of its while (true) per step             *)

\* The targets and the replacements of the substitutions tried: metadata of
\* the allocated buffer replaced by constants, by metadata of another buffer,
\* by one another and by expressions of themselves (a flipped dimension).
SubstTargets == {buffer_min(BufSym, 1), buffer_max(BufSym, 1)}

SubstReplacements ==
  {Const(0), buffer_max(OutSym, 1), buffer_min(BufSym, 1), buffer_max(BufSym, 1),
   SubE(Const(0), buffer_max(BufSym, 1)), SubE(Const(0), buffer_min(BufSym, 1))}

SubstPairs == SubstTargets \X SubstReplacements

SubstLists == {<<p>> : p \in SubstPairs} \cup {<<p, q>> : p \in SubstPairs, q \in SubstPairs}

\* One round of the while (true): every dim with every substitution applied.
SubstituteRound(dims, subs) == Tuple([d \in DOMAIN dims |-> SubstDim(dims[d], subs)])

\* The dims are those the builder gives an allocation; input holds the
\* substitutions and aux the flag `changed`.
InitSubst ==
  /\ phase = "substituting"
  /\ prog = PlaceholderDims(BufSym, 1)
  /\ \E subs \in SubstLists : input = subs
  /\ aux = [changed |-> FALSE]
  /\ run = <<>>

\* for (dim_expr& dim : dims): every dim is substituted into and changed is
\* set when one of them is no longer the same.
SubstituteDims ==
  /\ phase = "substituting"
  /\ prog' = SubstituteRound(prog, input)
  /\ aux' = [changed |-> prog' # prog]
  /\ phase' = "substituted"
  /\ UNCHANGED <<input, run>>

\* if (!changed) return dims;
SubstituteReturn ==
  /\ phase = "substituted"
  /\ ~aux.changed
  /\ phase' = "returned"
  /\ UNCHANGED <<prog, input, aux, run>>

\* while (true): a dim changed, on to the next round.
SubstituteAgain ==
  /\ phase = "substituted"
  /\ aux.changed
  /\ phase' = "substituting"
  /\ aux' = [changed |-> FALSE]
  /\ UNCHANGED <<prog, input, run>>

NextSubst == SubstituteDims \/ SubstituteReturn \/ SubstituteAgain

\* The function runs on as long as it has not returned: weak fairness of each
\* of its steps, that of SubstituteDims with its ENABLED written out (it is
\* enabled exactly when phase = "substituting").
SpecSubst ==
  /\ InitSubst
  /\ [][NextSubst]_vars
  /\ WF_vars(SubstituteReturn)
  /\ WF_vars(SubstituteAgain)
  /\ ([]<>(phase # "substituting") \/ []<><<SubstituteDims>>_vars)

\* C26: recursive_substitute terminates for every vector of dims and every
\* list of substitutions, also when a replacement mentions its own target or
\* the target of another substitution.
C26_RecursiveSubstituteTerminates == <>(phase = "returned")

-----------------------------------------------------------------------------
(* Claims about the loop min slide_and_fold_storage moves back              *)

\* The caller's buffers with "<loop>.min_orig" bound to the original min, as
\* the let around the rewritten loop binds it.
OrigMinEnv == [CallerEnv EXCEPT !.vars[OrigMinSym(1)] = Some(input.omin)]

\* The min of the loop after slide_and_fold_storage.
NewLoopMin == EvalE(LoopHeaders(prog)[1][3][1], OrigMinEnv)

\* slide_and_fold_storage moved the min of the one loop of a serial graph.
LoopMinMoved ==
  /\ IsSome(input.g.loop)
  /\ Val(input.g.loop).mode = "serial"
  /\ Len(LoopHeaders(prog)) = 1
  /\ ExprBound(LoopHeaders(prog)[1][3][1], OrigMinEnv)
  /\ NewLoopMin # input.omin

\* C27: when slide_and_fold_storage moves the min of a serial loop back and
\* keeps the step, the loop still takes every value of the original loop:
\* the original min less the new one is a multiple of the step, so the
\* consumer runs at the original coordinates after the warm-up iterations.
C27_MovedLoopKeepsIterations ==
  (phase = "done" /\ LoopMinMoved) =>
    /\ LoopHeaders(prog)[1][4] = Const(LoopStep)
    /\ NewLoopMin < input.omin
    /\ (input.omin - NewLoopMin) % LoopStep = 0
    /\ \A x \in LoopValues : x \in Iterations(NewLoopMin, input.omin + input.n - 1, LoopStep)

-----------------------------------------------------------------------------
(* Claims about the inputs of a call that are no allocation in scope        *)

\* C28: buffer_aliaser::visit(const call_stmt*) neither reads nor writes the
\* alias info of a symbol that has no alias_info entry in scope (an input of
\* the pipeline): no missing entry is dereferenced, so the pass never stops on
\* one.
C28_MissingAliasInfoPassedOver ==
  phase # "reduced" => (~aux.ub /\ phase = "aliased")

-----------------------------------------------------------------------------
(* Expression nodes: node_type, static_type, make and as<T>()               *)

node_type ==
  {"variable", "constant", "let", "add", "sub", "mul", "div", "mod", "min", "max", "equal", "not_equal",
   "less", "less_equal", "bitwise_and", "bitwise_or", "bitwise_xor", "logical_and", "logical_or"}

\* T::static_type of the node class T.
static_type(T) == IF T = "constant" THEN "variable" ELSE T

\* expr_node<T>(): the node T::make creates, of class T and with the type tag
\* base_node is given.
expr_node(T, fields) == [class |-> T, type |-> static_type(T), fields |-> fields]

\* as<T>() is not null.
as(e, T) == e.type = static_type(T)

\* The payloads of the nodes made: a symbol, a value or nothing of interest.
MaxPayload == 2

\* No as<T>() has been called on the node at hand.
NotAsked == [T |-> "none", found |-> FALSE]

InitNodes ==
  /\ phase = "no_node"
  /\ prog = Nil
  /\ input = <<>>
  /\ aux = NotAsked
  /\ run = <<>>

\* T::make(...): prog is the node at hand.
MakeNode ==
  /\ phase \in {"no_node", "node"}
  /\ \E T \in node_type : \E x \in 0..MaxPayload : prog' = expr_node(T, x)
  /\ phase' = "node"
  /\ aux' = NotAsked
  /\ UNCHANGED <<input, run>>

\* e.as<T>() on the node at hand: aux holds T and whether the result is not
\* null.
AsNode ==
  /\ phase = "node"
  /\ \E T \in node_type : aux' = [T |-> T, found |-> as(prog, T)]
  /\ UNCHANGED <<phase, prog, input, run>>

NextNodes == MakeNode \/ AsNode

SpecNodes == InitNodes /\ [][NextNodes]_vars

\* C29: every node class has its own node_type tag, so as<T>() is not null
\* exactly for the nodes T::make made: as<variable>() of a constant and
\* as<constant>() of a variable are null.
C29_AsFindsOwnClassOnly ==
  (phase = "node" /\ aux.T # "none") => (aux.found <=> prog.class = aux.T)

====
